---- MODULE Spec2Model ----
(***************************************************************************)
(* A model of mao_core: the interaction automaton (src/mao/automaton.rs)   *)
(* and the event-resolution pipeline of the game core                      *)
(* (src/mao/mao_core.rs).                                                  *)
(*                                                                         *)
(* Six state machines share this module.  SpecAutomaton drives one         *)
(* Automaton value through its public operations; SpecCore drives one      *)
(* MaoCore value through the operations a front-end or a leaf handler      *)
(* calls; SpecRules does the same with two rule modules; SpecTurn applies  *)
(* update_turn and get_card_effects to the inputs of a bounded set;        *)
(* SpecInsert builds an Automaton from paths whose steps carry payloads    *)
(* and SpecRemove takes paths out of one.  Every operation is one action:  *)
(* the successor state is computed by operators that follow the Rust code  *)
(* statement by statement.  A handler of a rule module answers with a      *)
(* verdict or with an error, and so do the hooks and callbacks a verdict   *)
(* carries; the engine hands such an error to its caller.                  *)
(***************************************************************************)
EXTENDS Integers, Sequences, FiniteSets, TLC

VARIABLES
    \* --- SpecAutomaton ---
    automaton,      \* the Automaton: arena, current_state, root, previous_interactions
    a_op,           \* the last operation applied to it
    a_result,       \* what that operation returned
    a_panicked,     \* an operation panicked: the program is gone
    a_hist,         \* history kept for the properties (not program state)
    \* --- SpecCore ---
    mao_core,       \* the MaoCore: rules, stacks, players, turn, recorded events
    c_op,           \* the last operation applied to it
    c_status,       \* how it ended: "Ok", "Err:..." or "panic:..."
    c_wrong,        \* the violations it handed back
    c_trace,        \* the hooks and penalty / turn routines it called, in order
    c_before,       \* the MaoCore before it (history, not program state)
    c_steps,        \* operations applied so far
    c_out           \* what it returned, when that is a list of card effects

a_vars == <<automaton, a_op, a_result, a_panicked, a_hist>>
c_vars == <<mao_core, c_op, c_status, c_wrong, c_trace, c_before, c_steps, c_out>>
vars == <<automaton, a_op, a_result, a_panicked, a_hist,
          mao_core, c_op, c_status, c_wrong, c_trace, c_before, c_steps, c_out>>

\* ------------------------------------------------------------------------
\* Bounds of the automaton model
\* ------------------------------------------------------------------------
\* how many of the seven PlayerAction tokens the inputs use
NumTokens == 2
\* longest action path given to from_iter / extend / remove_paths
MaxPathLen == 2
\* how many distinct owning-rule tags the inputs use (beside "no rule")
NumRules == 1
\* how many distinct payloads (IdString values) on_action is given (beside None)
NumPayloads == 1
\* longest list of paths given to from_iter at construction
MaxInitPaths == 2
\* longest list of paths given to one extend / remove_paths call
MaxCallPaths == 1
\* extend is not called once the arena holds this many nodes (removed ones included)
MaxNodes == 3
\* the same limit where the automaton is only built and rebuilt
MaxInsertNodes == 4
\* largest disambiguation index given to on_action_indexed
MaxIndex == 2
\* values of the cards
NumValues == 2
\* signs of the cards, the first of Spade, Diamond, Club, Heart
NumSigns == 2
\* players at the table
NumPlayers == 2
\* cards dealt to each player
NbCards == 1
\* engine operations in a run
MaxSteps == 3
\* greatest card index a player gives
\* rule modules found by from_config in SpecRules
NumModules == 2
\* the most cards asked of draw_multiple_cards_unchosen
MaxDraw == 3
\* SpecTurn: players, the bits of an isize (64 in the build, fewer here so
\* that its least value is a step the model takes), the greatest i of
\* Set(i), the entries of a configuration of card effects
MaxTurnPlayers == 3
IsizeBits == 4
MaxSet == 3
MaxEffectKeys == 2
MaxCardIndex == 1
MaxStackIndex == 1
\* SpecCore: the direct calls of a run (see Direct)
MaxDirectSteps == 1
\* SpecCore: the index of a stack that is not there in a direct call
MaxStacks == 5

\* ------------------------------------------------------------------------
\* Generic sequence helpers
\* ------------------------------------------------------------------------
Range(s) == {s[i] : i \in 1..Len(s)}

RECURSIVE Reverse(_)
Reverse(s) == IF s = <<>> THEN <<>> ELSE Append(Reverse(Tail(s)), Head(s))

\* s without its last element (Vec::pop / slice [..len-1])
Front(s) == SubSeq(s, 1, Len(s) - 1)

\* all sequences over S of length lo..hi
SeqsOf(S, lo, hi) == UNION {[1..n -> S] : n \in lo..hi}

\* ------------------------------------------------------------------------
\* PlayerAction, MaoInteraction, NodeState
\* ------------------------------------------------------------------------
\* automaton.rs:23-33: the enum in declaration order; a token is its position,
\* so that the derived Ord is the order of the positions.
PlayerAction == <<"SelectCard", "SelectPlayer", "SelectPlayableStack",
                  "SelectDrawableStack", "SelectDiscardableStack", "SelectRule",
                  "DoAction">>

Tokens == 1..NumTokens
\* Option<IdString>: 0 is None, k > 0 the k-th payload
Payloads == 0..NumPayloads
\* Option<Arc<str>>: 0 is None, k > 0 the k-th rule name
RuleTags == 0..NumRules

\* mao_action.rs:31-41
MaoInteraction_new(data, action) == [data |-> data, action |-> action]

\* mao_action.rs:31 #[derive(Default)]: data None, action SelectCard (#[default])
MaoInteraction_default == MaoInteraction_new(0, 1)

\* automaton.rs:100-112; func is "None" or "Some" (a bound handler)
NodeState_new(action, func, rule) == [action |-> action, rule |-> rule, func |-> func]

\* three-way comparison of two naturals
Cmp(a, b) == IF a < b THEN -1 ELSE IF a > b THEN 1 ELSE 0

\* mao_action.rs:31 #[derive(PartialOrd, Ord)]: fields in declaration order,
\* data first, then action
MaoInteraction_cmp(x, y) ==
    IF Cmp(x.data, y.data) # 0 THEN Cmp(x.data, y.data) ELSE Cmp(x.action, y.action)

\* automaton.rs:80-84: (&self.action, &self.rule).cmp(...)
NodeState_cmp(x, y) ==
    IF MaoInteraction_cmp(x.action, y.action) # 0
    THEN MaoInteraction_cmp(x.action, y.action)
    ELSE Cmp(x.rule, y.rule)

\* automaton.rs:92-96: func does not take part
NodeState_eq(x, y) == x.action = y.action /\ x.rule = y.rule

\* ------------------------------------------------------------------------
\* The arena (indextree::Arena<NodeState>) and the Automaton
\* ------------------------------------------------------------------------
\* A NodeId is the position (slot) of the node in the arena.  A removed node is
\* freed: marked removed, detached from its parent, links cleared, its slot
\* queued for the next nodes created.  The arena reads a NodeId by its slot
\* alone, so a NodeId kept from before the removal designates whatever node
\* took the slot since.

\* what a freed slot holds in place of its data: the slot freed after it,
\* 0 when it is the last one freed
NextFree(next) == [next_free |-> next]

FreeSlots(arena) == {i \in 1..Len(arena) : arena[i].removed}

\* the slot freed first among those not taken again, 0 when there is none
first_free_slot(arena) ==
    IF FreeSlots(arena) = {} THEN 0
    ELSE CHOOSE i \in FreeSlots(arena) :
             \A j \in FreeSlots(arena) : arena[j].data.next_free # i

\* the slot freed last, 0 when there is none
last_free_slot(arena) ==
    IF FreeSlots(arena) = {} THEN 0
    ELSE CHOOSE i \in FreeSlots(arena) : arena[i].data.next_free = 0

\* the NodeId Arena::new_node hands back: the slot freed first, a new slot
\* at the end when none is free
new_node_id(arena) ==
    IF first_free_slot(arena) = 0 THEN Len(arena) + 1 ELSE first_free_slot(arena)

\* Arena::new_node: a detached node holding `ns`, in the slot new_node_id
Arena_new_node(arena, ns) ==
    LET node == [data |-> ns, parent |-> 0, children |-> <<>>, removed |-> FALSE]
    IN IF first_free_slot(arena) = 0 THEN Append(arena, node)
       ELSE [arena EXCEPT ![first_free_slot(arena)] = node]

\* NodeId::append_value(value, arena): a new node, last child of `parent`;
\* the automaton with the node added (its id is new_node_id of the arena
\* before)
append_value(a, parent, ns) ==
    LET id == new_node_id(a.arena)
        arena1 == Arena_new_node(a.arena, ns)
    IN [a EXCEPT !.arena = [arena1 EXCEPT ![id].parent = parent,
                                          ![parent].children = Append(@, id)]]

\* s with the element x replaced by the elements of r
RECURSIVE Splice(_, _, _)
Splice(s, x, r) ==
    IF s = <<>> THEN <<>>
    ELSE IF Head(s) = x THEN r \o Splice(Tail(s), x, r)
    ELSE <<Head(s)>> \o Splice(Tail(s), x, r)

\* NodeId::remove(arena): the node is freed and detached, its slot going to
\* the end of the queue of the free slots; its children take its place among
\* the children of its parent
NodeId_remove(a, id) ==
    LET n == a.arena[id]
        last == last_free_slot(a.arena)
        arena1 == [i \in 1..Len(a.arena) |->
                     IF i = id
                     THEN [data |-> NextFree(0), parent |-> 0, children |-> <<>>,
                           removed |-> TRUE]
                     ELSE IF i = last
                     THEN [a.arena[i] EXCEPT !.data = NextFree(id)]
                     ELSE IF i = n.parent
                     THEN [a.arena[i] EXCEPT !.children = Splice(@, id, n.children)]
                     ELSE IF i \in Range(n.children)
                     THEN [a.arena[i] EXCEPT !.parent = n.parent]
                     ELSE a.arena[i]]
    IN [a EXCEPT !.arena = arena1]

\* NodeId::ancestors(arena): the node itself, its parent, ... up to the root
RECURSIVE ancestors(_, _)
ancestors(a, id) ==
    IF id = 0 THEN <<>> ELSE <<id>> \o ancestors(a, a.arena[id].parent)

\* first element of s satisfying P, 0 (None) if there is none
FindFirst(s, P(_)) ==
    LET hits == SelectSeq(s, P) IN IF hits = <<>> THEN 0 ELSE hits[1]

\* automaton.rs:156-161
children_of(a, node_id) ==
    SelectSeq(a.arena[node_id].children, LAMBDA v : ~a.arena[v].removed)

\* automaton.rs:164-174: the rule tag of every step but the last is dropped
clear_path(path) ==
    [i \in 1..Len(path) |->
        IF i < Len(path) THEN [path[i] EXCEPT !.rule = 0] ELSE path[i]]

\* automaton.rs:266-274
get_node_id_from_children(a, node_id, node_state) ==
    FindFirst(children_of(a, node_id),
              LAMBDA id : ~a.arena[id].removed /\ NodeState_eq(node_state, a.arena[id].data))

\* automaton.rs:176-191: the ids of the nodes of `path` from the root down,
\* <<0>> (None) as soon as one step has no equal child
RECURSIVE convert_walk(_, _, _, _)
convert_walk(a, path, i, data) ==
    IF i > Len(path) THEN Tail(data)
    ELSE LET node_id == get_node_id_from_children(a, data[Len(data)], path[i])
         IN IF node_id = 0 THEN <<0>>
            ELSE convert_walk(a, path, i + 1, Append(data, node_id))

convert_into_node_ids(a, path) == convert_walk(a, path, 1, <<a.root>>)

\* automaton.rs:230-239: the data of every ancestor is read, the cursor's and
\* the root's included, before the root's is dropped; reading a freed node
\* panics (Node::get).  [actions: the steps from the root down, panic]
get_executed_actions(a) ==
    LET anc == ancestors(a, a.current_state)
    IN IF \E i \in 1..Len(anc) : a.arena[anc[i]].removed
       THEN [actions |-> <<>>, panic |-> TRUE]
       ELSE [actions |-> [i \in 1..Len(Reverse(Front(anc))) |->
                             a.arena[Reverse(Front(anc))[i]].data],
             panic |-> FALSE]

\* automaton.rs:248-257
get_leaves(a, node_id) ==
    SelectSeq(children_of(a, node_id), LAMBDA id : a.arena[id].data.func # "None")

\* automaton.rs:276-284
get_node_id_of(a, node_id, action) ==
    FindFirst(children_of(a, node_id),
              LAMBDA id : a.arena[id].data.action.action = action
                          /\ a.arena[id].data.func = "None")

\* automaton.rs:325-330
nodes_from_ids(a, nodes) == [i \in 1..Len(nodes) |-> a.arena[nodes[i]].data]

\* automaton.rs:527-541
search_type(a, action) ==
    SelectSeq(children_of(a, a.current_state),
              LAMBDA id : a.arena[id].data.action.action = action)

\* automaton.rs:543-548
verify_action_path(datas) ==
    /\ datas # <<>>
    /\ datas[Len(datas)].func # "None"
    /\ \A i \in 1..(Len(datas) - 1) : datas[i].func = "None"

\* automaton.rs:300-310: the branch steps; the automaton and the last parent
RECURSIVE insert_branches(_, _, _, _)
insert_branches(a, datas, i, parent) ==
    IF i >= Len(datas) THEN [a |-> a, parent |-> parent]
    ELSE LET par == get_node_id_of(a, parent, datas[i].action.action)
         IN IF par # 0 THEN insert_branches(a, datas, i + 1, par)
            ELSE LET a1 == append_value(a, parent,
                                        NodeState_new(datas[i].action, datas[i].func, 0))
                 IN insert_branches(a1, datas, i + 1, new_node_id(a.arena))

\* automaton.rs:296-323: [a: the automaton afterwards, panic: the leaf was present]
insert_iter(a, datas) ==
    IF datas = <<>> THEN [a |-> a, panic |-> FALSE]
    ELSE LET w == insert_branches(a, datas, 1, a.root)
             last == datas[Len(datas)]
             leaves == nodes_from_ids(w.a, get_leaves(w.a, w.parent))
         IN IF \E i \in 1..Len(leaves) : NodeState_eq(leaves[i], last)
            THEN [a |-> w.a, panic |-> TRUE]
            ELSE [a |-> append_value(w.a, w.parent, last), panic |-> FALSE]

\* the steps datas[i..] added below `parent` as new nodes, one under the other
RECURSIVE append_chain(_, _, _, _)
append_chain(a, datas, i, parent) ==
    IF i > Len(datas) THEN a
    ELSE LET a1 == append_value(a, parent, datas[i])
         IN append_chain(a1, datas, i + 1, new_node_id(a.arena))

\* extend adding every path as a chain of its own below the root
RECURSIVE extend_unshared(_, _)
extend_unshared(a, iter) ==
    IF iter = <<>> THEN [a |-> a, panic |-> FALSE]
    ELSE IF ~verify_action_path(Head(iter)) THEN [a |-> a, panic |-> TRUE]
    ELSE extend_unshared(append_chain(a, clear_path(Head(iter)), 1, a.root), Tail(iter))

\* automaton.rs:577-583: the loop of extend; a panic stops it
RECURSIVE extend(_, _)
extend(a, iter) ==
    IF iter = <<>> THEN [a |-> a, panic |-> FALSE]
    ELSE IF ~verify_action_path(Head(iter)) THEN [a |-> a, panic |-> TRUE]
    ELSE LET r == insert_iter(a, clear_path(Head(iter)))
         IN IF r.panic THEN r ELSE extend(r.a, Tail(iter))

\* automaton.rs:564-568: the loop of from_iter; a panic stops it
RECURSIVE from_iter_loop(_, _)
from_iter_loop(ret, iter) ==
    IF iter = <<>> THEN [a |-> ret, panic |-> FALSE]
    ELSE IF ~verify_action_path(Head(iter)) THEN [a |-> ret, panic |-> TRUE]
    ELSE LET r == insert_iter(ret, clear_path(Head(iter)))
         IN IF r.panic THEN r ELSE from_iter_loop(r.a, Tail(iter))

\* automaton.rs:555-570
from_iter(iter) ==
    LET arena == Arena_new_node(<<>>, NodeState_new(MaoInteraction_default, "None", 0))
        ret == [arena |-> arena, current_state |-> 1, root |-> 1,
                previous_interactions |-> <<>>]
    IN from_iter_loop(ret, iter)

\* automaton.rs:478-481
reset(a) == [a EXCEPT !.current_state = a.root, !.previous_interactions = <<>>]

\* cancel_last doing nothing when the parent of the cursor is the root
cancel_last_keeping_first(a) ==
    LET anc == ancestors(a, a.current_state)
    IN IF Len(anc) >= 3
       THEN [a |-> [a EXCEPT !.current_state = anc[2]],
             ret |-> <<a.arena[a.current_state].data>>]
       ELSE [a |-> a, ret |-> <<>>]

\* automaton.rs:146-153: [a, ret: the node left, or "None"]
cancel_last(a) ==
    LET anc == ancestors(a, a.current_state)
    IN IF Len(anc) >= 2
       THEN [a |-> [a EXCEPT !.current_state = anc[2]],
             ret |-> <<a.arena[a.current_state].data>>]
       ELSE [a |-> a, ret |-> <<>>]

\* a variant of put_node_at_end that leaves the list as search_type found it
put_node_at_end_unmoved(nodes) == nodes

\* automaton.rs:444-453: the first branch of the list changes places with the
\* last element
put_node_at_end(nodes) ==
    LET index == FindFirst([i \in 1..Len(nodes) |-> i],
                           LAMBDA i : nodes[i].func = "None")
        len == Len(nodes)
    IN IF index = 0 THEN nodes
       ELSE [i \in 1..len |->
               IF i = index THEN nodes[len]
               ELSE IF i = len THEN nodes[index]
               ELSE nodes[i]]

\* The value of a MaoInteractionResult / Result<MaoInteractionResult, Error>
Result(kind, interactions, func, nodes) ==
    [kind |-> kind, interactions |-> interactions, func |-> func, nodes |-> nodes]

\* automaton.rs:342-361 and 392-401: the steps walked so far with the payloads
\* stored on the nodes, then the step given now (the cursor here has a live
\* child, so it is not a freed node and get_executed_actions does not panic)
leaf_interactions(a, interaction) ==
    LET executed == get_executed_actions(a).actions
    IN Append([i \in 1..Len(executed) |-> executed[i].action], interaction)

\* a variant of advance_to that leaves the payload of the node as it was
advance_to_unstamped(a, node_id, interaction) ==
    [a EXCEPT !.current_state = node_id]

\* automaton.rs:364-371 and 405-414: the cursor moves to `node_id`, which takes
\* the payload of the step
advance_to(a, node_id, interaction) ==
    [a EXCEPT !.current_state = node_id,
              !.arena[node_id].data.action.data = interaction.data]

\* automaton.rs:336-380: [a: the automaton afterwards, res: the result]
on_action(a, interaction) ==
    LET nodes == search_type(a, interaction.action)
    IN IF Len(nodes) = 0
       THEN [a |-> a, res |-> Result("NoInteractionFound", <<>>, "None", <<>>)]
       ELSE IF Len(nodes) = 1
       THEN IF a.arena[nodes[1]].data.func # "None"
            THEN LET interactions == leaf_interactions(a, interaction)
                 IN [a |-> [reset(a) EXCEPT !.previous_interactions = interactions],
                     res |-> Result("Leaf", interactions, a.arena[nodes[1]].data.func, <<>>)]
            ELSE [a |-> advance_to(a, nodes[1], interaction),
                  res |-> Result("AdvancedNextState", <<>>, "None", <<>>)]
       ELSE [a |-> a,
             res |-> Result("Nodes", <<>>, "None",
                            put_node_at_end(nodes_from_ids(a, nodes)))]

\* a variant of slice::get that wraps an index past the end around
slice_get_wrapping(nodes, index) ==
    IF nodes = <<>> THEN <<>> ELSE <<nodes[(index % Len(nodes)) + 1]>>

\* slice::get as called at automaton.rs:389: <<the element>> (Some), or <<>>
\* (None) when index, counted from 0, is not below the length
slice_get(nodes, index) ==
    IF index < Len(nodes) THEN <<nodes[index + 1]>> ELSE <<>>

\* automaton.rs:382-430
on_action_indexed(a, interaction, index) ==
    LET first == on_action(a, interaction)
        got == slice_get(first.res.nodes, index)
    IN IF first.res.kind = "Nodes"
       THEN IF got # <<>>
            THEN IF got[1].func # "None"
                 THEN LET interactions == leaf_interactions(first.a, interaction)
                      IN [a |-> [reset(first.a) EXCEPT
                                    !.previous_interactions = interactions],
                          res |-> Result("Leaf", interactions, got[1].func, <<>>)]
                 ELSE [a |-> advance_to(first.a,
                                        get_node_id_of(first.a, first.a.current_state,
                                                       interaction.action),
                                        interaction),
                       res |-> Result("AdvancedNextState", <<>>, "None", <<>>)]
            ELSE [a |-> first.a, res |-> Result("Err:InvalidIndex", <<>>, "None", <<>>)]
       ELSE [a |-> first.a, res |-> Result("Err:NotMultipleNodes", <<>>, "None", <<>>)]

\* automaton.rs:469-473: from the leaf upward, a node without live children goes
RECURSIVE remove_upward(_, _)
remove_upward(a, rev_ids) ==
    IF rev_ids = <<>> THEN a
    ELSE IF children_of(a, Head(rev_ids)) = <<>>
         THEN remove_upward(NodeId_remove(a, Head(rev_ids)), Tail(rev_ids))
         ELSE remove_upward(a, Tail(rev_ids))

\* automaton.rs:455-476: [a, panic: verify_action_path failed]
RECURSIVE remove_paths(_, _)
remove_paths(a, paths) ==
    IF paths = <<>> THEN [a |-> a, panic |-> FALSE]
    ELSE IF Head(paths) = <<>> THEN remove_paths(a, Tail(paths))
    ELSE LET path == clear_path(Head(paths))
         IN IF ~verify_action_path(path) THEN [a |-> a, panic |-> TRUE]
            ELSE LET node_ids == convert_into_node_ids(a, path)
                 IN IF node_ids = <<0>> THEN remove_paths(a, Tail(paths))
                    ELSE remove_paths(remove_upward(a, Reverse(node_ids)), Tail(paths))

\* slice::sort_by (stable) of node ids by the NodeState they hold: x goes
\* after every element that is not greater than it
RECURSIVE sort_insert(_, _, _)
sort_insert(a, sorted, x) ==
    IF sorted = <<>> THEN <<x>>
    ELSE IF NodeState_cmp(a.arena[x].data, a.arena[Head(sorted)].data) < 0
         THEN <<x>> \o sorted
         ELSE <<Head(sorted)>> \o sort_insert(a, Tail(sorted), x)

RECURSIVE sort_by(_, _)
sort_by(a, ids) ==
    IF ids = <<>> THEN <<>>
    ELSE sort_insert(a, sort_by(a, Front(ids)), ids[Len(ids)])

\* automaton.rs:483-524
RECURSIVE same_node(_, _, _, _)
same_node(self, self_node_id, other, node_id) ==
    LET self_actions == sort_by(self, children_of(self, self_node_id))
        other_actions == sort_by(other, children_of(other, node_id))
    IN IF Len(self_actions) # Len(other_actions) THEN FALSE
       ELSE \A i \in 1..Len(self_actions) :
              LET s_node == self.arena[self_actions[i]].data
                  o_node == other.arena[other_actions[i]].data
              IN /\ (s_node.func # "None") = (o_node.func # "None")
                 /\ IF s_node.func # "None"
                    THEN NodeState_eq(s_node, o_node)
                    ELSE s_node.action = o_node.action
                 /\ same_node(self, self_actions[i], other, other_actions[i])

\* automaton.rs:586-590
Automaton_eq(self, other) == same_node(self, self.root, other, other.root)

\* ------------------------------------------------------------------------
\* The engine (mao_core.rs)
\* ------------------------------------------------------------------------
\* A card is [value, sign]; the sign decides the color
\* (card/common_card_type.rs:45-50).
Signs == <<"Spade", "Diamond", "Club", "Heart">>

Card_new(value, sign) == [value |-> value, sign |-> sign]

get_color(card) ==
    IF card.sign \in {"Spade", "Club"} THEN "Black" ELSE "Red"

\* mao_core.rs:1852-1867: the cards as the loops push them, NumValues values
\* of the first NumSigns signs
common_cards ==
    [k \in 1..(NumValues * NumSigns) |->
        Card_new(((k - 1) \div NumSigns) + 1, Signs[((k - 1) % NumSigns) + 1])]

\* the orderings of a list: what slice::shuffle may leave of it
Orderings(list) ==
    LET n == Len(list)
        perms == {f \in [1..n -> 1..n] : \A i, j \in 1..n : f[i] = f[j] => i = j}
    IN {[i \in 1..n |-> list[f[i]]] : f \in perms}

\* mao_core.rs:1851-1870: the decks a call may hand back, the cards pushed
\* then shuffled (1868)
generate_common_draw == Orderings(common_cards)

\* Stack::new: the cards, bottom first, and the type of the stack
Stack_new(cards, stack_type) == [cards |-> cards, stack_type |-> stack_type]

\* mao_core.rs:478-492, generate_common_draw handing back `draw`: the draw
\* pile, the played stack holding the card drawn from the pile, the empty
\* discard
init_stacks(draw) ==
    <<Stack_new(Front(draw), "Drawable"),
      Stack_new(<<draw[Len(draw)]>>, "Playable"),
      Stack_new(<<>>, "Discardable")>>

\* An occurrence (mao_event.rs:17-50). Of a card occurrence the player and the
\* card are kept; message holds what was said or the name of what was done.
PlayedCardEvent(player_index, card) ==
    [kind |-> "PlayedCardEvent", player_index |-> player_index,
     card |-> <<card>>, message |-> "", events |-> <<>>]
DrawedCardEvent(player_index, card) ==
    [kind |-> "DrawedCardEvent", player_index |-> player_index,
     card |-> <<card>>, message |-> "", events |-> <<>>]
SayEvent(player_index, message) ==
    [kind |-> "SayEvent", player_index |-> player_index,
     card |-> <<>>, message |-> message, events |-> <<>>]
PhysicalEvent(player_index, physical_name) ==
    [kind |-> "PhysicalEvent", player_index |-> player_index,
     card |-> <<>>, message |-> physical_name, events |-> <<>>]
EndPlayerTurn(events) ==
    [kind |-> "EndPlayerTurn", player_index |-> 0,
     card |-> <<>>, message |-> "", events |-> events]
PlayerPenality(player_target) ==
    [kind |-> "PlayerPenality", player_index |-> player_target,
     card |-> <<>>, message |-> "", events |-> <<>>]
StackPropertyRunsOut(empty_stack_index) ==
    [kind |-> "StackPropertyRunsOut", player_index |-> empty_stack_index,
     card |-> <<>>, message |-> "", events |-> <<>>]
DiscardCardEvent(player_index, card) ==
    [kind |-> "DiscardCardEvent", player_index |-> player_index,
     card |-> <<card>>, message |-> "", events |-> <<>>]
GameStart ==
    [kind |-> "GameStart", player_index |-> 0,
     card |-> <<>>, message |-> "", events |-> <<>>]
VerifyEvent ==
    [kind |-> "VerifyEvent", player_index |-> 0,
     card |-> <<>>, message |-> "", events |-> <<>>]
\* StackTarget (mao_event.rs:9-13): Player(index) or Stack(index)
StackTarget(kind, index) == [kind |-> kind, index |-> index]
GiveCardEvent(card, from_player_index, target) ==
    [kind |-> "GiveCardEvent", player_index |-> from_player_index,
     card |-> <<card>>, message |-> "", events |-> <<>>, target |-> target]

\* is_recordable keeping every occurrence
is_recordable_always(event) == TRUE

\* mao_event.rs:53-62
is_recordable(event) ==
    event.kind \notin {"GameStart", "VerifyEvent", "StackPropertyRunsOut",
                       "EndPlayerTurn", "PlayerPenality"}

\* mao_event.rs:64-66
can_change_turn(event) == event.kind \in {"PlayedCardEvent", "DrawedCardEvent"}

\* A verdict (MaoEventResult, mao_event_result.rs): its type, whether a
\* Disallow / ForgetSomething carries a penalty hook, and the type of the
\* verdict its other_rules_callback returns ("None": no callback).  The
\* functions a verdict carries are the module's: hook_err names those that
\* return Err when the engine calls them, none of them as the verdict is made.
MaoEventResult_new(res_type, penality, other_rules_callback) ==
    [res_type |-> res_type, penality |-> penality,
     other_rules_callback |-> other_rules_callback, hook_err |-> {}]

\* The functions a verdict hands to the engine each return an
\* anyhow::Result: the penalty hook of a Disallow / ForgetSomething
\* ("penality", mao_event_result.rs:11), the hook of an
\* ExecuteBeforeTurnChange ("before") and of an ExecuteAfterTurnChange
\* ("after", 85), the cross-rule callback ("callback", 13).  Failing is the
\* verdict `result`, or the violation made of it, of a module whose functions
\* `hooks` return Err.
Failing(result, hooks) == [result EXCEPT !.hook_err = hooks]

Ignored == MaoEventResult_new("Ignored", FALSE, "None")

\* what stands for the answer of a handler that returns Err(error) and no
\* verdict (the Result of mao_core.rs:1476-1480)
HandlerErr == MaoEventResult_new("Err", FALSE, "None")

\* The rule modules are outside the engine (dynamic libraries): a module is
\* modelled by what its on_event answers, `result` to the occurrences of
\* `kinds` and Ignored to the others; `result` is a verdict, or HandlerErr.
EventKinds ==
    {"PlayedCardEvent", "DrawedCardEvent", "SayEvent", "PhysicalEvent",
     "EndPlayerTurn", "PlayerPenality", "StackPropertyRunsOut",
     "DiscardCardEvent", "GameStart", "VerifyEvent", "GiveCardEvent"}

\* the kinds of the occurrences that are recorded (mao_event.rs:53-62)
ActionKinds == {kind \in EventKinds : is_recordable([kind |-> kind])}

Answering(kinds, result) == [kinds |-> kinds, result |-> result]

\* a module found by from_config that has not been activated yet: what it
\* answers is found out when it is activated and first called
NotCalled == Answering({"?"}, Ignored)

RuleBehaviours ==
    {Answering(ActionKinds, MaoEventResult_new(t, p, "None")) :
        t \in {"Disallow", "ForgetSomething"}, p \in BOOLEAN}
    \cup {Answering(ActionKinds, MaoEventResult_new(t, FALSE, "None")) :
        t \in {"Ignored", "OverrideBasicRule", "ExecuteBeforeTurnChange",
               "ExecuteAfterTurnChange"}}
    \cup {Answering(ActionKinds,
                    MaoEventResult_new("ExecuteBeforeTurnChange", FALSE,
                                       "OverrideBasicRule")),
          Answering(ActionKinds,
                    MaoEventResult_new("OverrideBasicRule", FALSE,
                                       "ExecuteAfterTurnChange"))}
    \cup {Answering({k}, MaoEventResult_new("Disallow", FALSE, "None")) :
        k \in {"EndPlayerTurn", "PlayerPenality", "StackPropertyRunsOut"}}
    \cup {Answering(ActionKinds, HandlerErr)}
    \cup {Answering({k}, HandlerErr) :
        k \in {"EndPlayerTurn", "PlayerPenality", "StackPropertyRunsOut"}}
    \cup {Answering(ActionKinds,
                    Failing(MaoEventResult_new("Disallow", TRUE, "None"), {"penality"})),
          Answering(ActionKinds,
                    Failing(MaoEventResult_new("Disallow", TRUE, "ExecuteBeforeTurnChange"),
                            {"penality"})),
          Answering({"EndPlayerTurn"},
                    Failing(MaoEventResult_new("Disallow", TRUE, "None"), {"penality"})),
          Answering(ActionKinds,
                    Failing(MaoEventResult_new("ExecuteBeforeTurnChange", FALSE, "None"),
                            {"before"})),
          Answering(ActionKinds,
                    Failing(MaoEventResult_new("ExecuteAfterTurnChange", FALSE, "None"),
                            {"after"})),
          Answering(ActionKinds,
                    Failing(MaoEventResult_new("OverrideBasicRule", FALSE,
                                               "ExecuteAfterTurnChange"),
                            {"callback"}))}

\* The run of one engine operation: the MaoCore as changed so far, how the
\* run stands ("Ok", "Err:..." once a Result::Err is on its way up through
\* `?`, "panic:..." once the thread unwinds), and the calls made so far to
\* rule hooks and to the engine's own penalty and turn routines, each with
\* the line it was made from.
Run(mao) == [mao |-> mao, status |-> "Ok", trace |-> <<>>]

Ok(x) == x.status = "Ok"

Fail(x, status) == [x EXCEPT !.status = status]

\* `value` given the name under which F uses it
With(value, F(_)) == F(value)

\* what an operation that ended as x hands back: `wrong` if it ended well
Returning(x, wrong) == [x |-> x, wrong |-> IF Ok(x) THEN wrong ELSE <<>>]

Called(x, call, site, player_index, info) ==
    [x EXCEPT !.trace = Append(@, [call |-> call, site |-> site,
                                   player_index |-> player_index, info |-> info])]

\* the types of a list of verdicts
ResTypes(results) == [i \in 1..Len(results) |-> results[i].res_type]

\* mao_core.rs:1475-1481: the handlers of the rules `rules` called one after
\* the other, each call kept in the trace with the index of its rule and the
\* length of the log the handler is given; the Err of a handler ends the
\* loop (`?`), the handlers after it are not called; [x, results]
RECURSIVE call_handlers(_, _, _, _, _)
call_handlers(x, rules, event, ans, results) ==
    IF rules = <<>> THEN [x |-> x, results |-> results]
    ELSE IF ans[Head(rules)][event.kind] = HandlerErr
    THEN [x |-> Fail(Called(x, "get_on_event_func", 1476, event.player_index,
                            <<Head(rules), Len(x.mao.player_events)>>),
                     "Err:Handler"),
          results |-> results]
    ELSE call_handlers(Called(x, "get_on_event_func", 1476, event.player_index,
                              <<Head(rules), Len(x.mao.player_events)>>),
                       Tail(rules), event, ans,
                       Append(results, ans[Head(rules)][event.kind]))

\* mao_core.rs:1470-1483: [x, results: one verdict per activated rule, none
\* when a handler failed]; the trace keeps the kind of the occurrence and the
\* types of the verdicts the handlers gave, then "Err" when the last one
\* called failed
on_event(x, event, ans) ==
    LET recorded == IF is_recordable(event)
                    THEN [x EXCEPT !.mao.player_events = Append(@, event)]
                    ELSE x
        r == call_handlers(recorded, x.mao.activated_rules, event, ans, <<>>)
    IN [x |-> Called(r.x, "on_event", 1470, event.player_index,
                     <<event.kind>> \o ResTypes(r.results)
                         \o (IF Ok(r.x) THEN <<>> ELSE <<"Err">>)),
        results |-> IF Ok(r.x) THEN r.results ELSE <<>>]

all_ignored(results) == \A i \in 1..Len(results) : results[i].res_type = "Ignored"

\* PlayerTurnChange (mao_core.rs:79-83): Update or Rotate of Set(n) or Update(n)
PlayerTurnChange_new(rotate, set, n) == [rotate |-> rotate, set |-> set, n |-> n]

\* mao_core.rs:73-77 and 132-136
PlayerTurnChange_default == PlayerTurnChange_new(FALSE, FALSE, 1)

\* the % of Rust on isize: the remainder has the sign of the dividend
TruncRem(a, b) == IF a >= 0 THEN a % b ELSE 0 - ((0 - a) % b)

\* isize: IsizeMin..IsizeMax
IsizeMax == 2 ^ (IsizeBits - 1) - 1
IsizeMin == 0 - 2 ^ (IsizeBits - 1)

\* what a release build keeps of an isize result: its value modulo 2^bits
WrapIsize(v) == ((v - IsizeMin) % (2 ^ IsizeBits)) + IsizeMin

\* update_turn leaving the direction alone for Rotate(Set(i))
update_turn_set_unflipped(mao, changes) ==
    LET nb_players == Len(mao.players)
        turn == IF changes.rotate /\ ~changes.set THEN 0 - mao.turn ELSE mao.turn
    IN IF changes.set
       THEN [mao EXCEPT !.turn = turn, !.player_turn = changes.n]
       ELSE IF nb_players = 0 THEN [mao EXCEPT !.turn = turn]
       ELSE [mao EXCEPT !.turn = turn,
                        !.player_turn =
                            (mao.player_turn
                                 + TruncRem(WrapIsize(turn * changes.n), nb_players))
                                % nb_players]

\* mao_core.rs:1692-1718 (`self.turn * step` wraps where it overflows: a
\* build with overflow checks panics there instead, see update_turn_overflows;
\* without a player the remainder panics once the direction is set, see
\* update_turn_divides_by_zero)
update_turn(mao, changes) ==
    LET nb_players == Len(mao.players)
        turn == IF changes.rotate THEN 0 - mao.turn ELSE mao.turn
    IN IF changes.set
       THEN [mao EXCEPT !.turn = turn, !.player_turn = changes.n]
       ELSE IF nb_players = 0 THEN [mao EXCEPT !.turn = turn]
       ELSE [mao EXCEPT !.turn = turn,
                        !.player_turn =
                            (mao.player_turn
                                 + TruncRem(WrapIsize(turn * changes.n), nb_players))
                                % nb_players]

\* mao_core.rs:1714-1715: `self.turn * step` leaves isize
update_turn_overflows(mao, changes) ==
    /\ ~changes.set
    /\ (IF changes.rotate THEN 0 - mao.turn ELSE mao.turn) * changes.n
           \notin IsizeMin..IsizeMax

\* mao_core.rs:1708-1715: the direction is flipped, then the product panics
update_turn_panicking(mao, changes) ==
    [mao EXCEPT !.turn = IF changes.rotate THEN 0 - mao.turn ELSE mao.turn]

\* mao_core.rs:1714-1716: `% (nb_players as isize)` without a player
update_turn_divides_by_zero(mao, changes) ==
    ~changes.set /\ Len(mao.players) = 0

\* update_turn called within a run
update_turn_in(x, changes) ==
    IF update_turn_divides_by_zero(x.mao, changes)
    THEN Fail([x EXCEPT !.mao = update_turn(@, changes)], "panic:rem_by_zero")
    ELSE [x EXCEPT !.mao = update_turn(@, changes)]

\* The effects a configuration gives to cards (config.rs, Config::cards_effects),
\* by key [c_type, value], "" and 0 standing for None: here a card of the
\* greatest value asks its player to say "w", and the card of the least
\* value and the second sign turns the direction of play.
CardEffectsKey_new(c_type, value) == [c_type |-> c_type, value |-> value]

\* SingleCardEffect (config.rs:261-264)
Say(words_to_say) == [effect |-> "Say", words |-> words_to_say, change |-> <<>>]
Physical(physical_name) ==
    [effect |-> "Physical", words |-> <<physical_name>>, change |-> <<>>]
TurnChange(change) == [effect |-> "PlayerTurnChange", words |-> <<>>, change |-> <<change>>]

cards_effects ==
    <<[key |-> CardEffectsKey_new("", NumValues), effects |-> <<Say(<<"w">>)>>],
      [key |-> CardEffectsKey_new(Signs[2], 1),
       effects |-> <<TurnChange([rotate |-> TRUE, set |-> FALSE, n |-> 1])>>]>>

\* mao_core.rs:1373-1381, `config` being self.config.cards_effects
get_card_effect_in(config, key) ==
    LET hits == SelectSeq(config, LAMBDA e : e.key = key)
    IN IF hits = <<>> THEN <<>> ELSE hits[1].effects

\* get_card_effects stopping at the first key that has effects
get_card_effects_first_found(config, card) ==
    IF get_card_effect_in(config, CardEffectsKey_new("", card.value)) # <<>>
    THEN get_card_effect_in(config, CardEffectsKey_new("", card.value))
    ELSE IF get_card_effect_in(config, CardEffectsKey_new(card.sign, 0)) # <<>>
    THEN get_card_effect_in(config, CardEffectsKey_new(card.sign, 0))
    ELSE get_card_effect_in(config, CardEffectsKey_new(card.sign, card.value))

\* mao_core.rs:1384-1401: by value, then by sign, then by both
get_card_effects_in(config, card) ==
    get_card_effect_in(config, CardEffectsKey_new("", card.value))
        \o get_card_effect_in(config, CardEffectsKey_new(card.sign, 0))
        \o get_card_effect_in(config, CardEffectsKey_new(card.sign, card.value))

\* mao_core.rs:1373-1381 under the configuration of the games modelled
get_card_effect(key) == get_card_effect_in(cards_effects, key)

\* mao_core.rs:1384-1401 under the configuration of the games modelled
get_card_effects(card) == get_card_effects_in(cards_effects, card)

\* mao_core.rs:1433-1435: a panic stops the loop
RECURSIVE update_turns(_, _)
update_turns(x, changes) ==
    IF changes = <<>> \/ ~Ok(x) THEN x
    ELSE update_turns(update_turn_in(x, Head(changes).change[1]), Tail(changes))

\* mao_core.rs:1404-1458
next_player(x, player_index, event, took_penality) ==
    IF event.kind = "PlayedCardEvent"
    THEN IF player_index # x.mao.player_turn THEN x
         ELSE IF took_penality
         THEN update_turn_in(x, PlayerTurnChange_default)
         ELSE LET x1 == [x EXCEPT !.mao.previous_player_turn = <<x.mao.player_turn>>]
                  changes == SelectSeq(get_card_effects(event.card[1]),
                                       LAMBDA e : e.effect = "PlayerTurnChange")
              IN IF changes = <<>>
                 THEN update_turn_in(x1, PlayerTurnChange_default)
                 ELSE update_turns(x1, changes)
    ELSE IF event.kind = "DrawedCardEvent"
    THEN IF player_index # x.mao.player_turn THEN x
         ELSE LET x1 == update_turn_in(x, PlayerTurnChange_default)
              IN IF ~Ok(x1) THEN x1
                 ELSE [x1 EXCEPT !.mao.previous_player_turn = <<x1.mao.player_turn>>]
    ELSE IF event.kind \in {"DiscardCardEvent", "SayEvent", "PhysicalEvent"}
    THEN Fail(x, "panic:todo")
    ELSE IF event.kind = "VerifyEvent" THEN Fail(x, "panic:unreachable")
    ELSE x

\* WrongPlayerInteraction (mao_event_result.rs:157-164): Disallow or
\* ForgotSomething, who raised it, the message, whether a penalty hook comes
\* with it
WrongPlayerInteraction_new(kind, rule, msg, penality) ==
    [kind |-> kind, rule |-> rule, msg |-> msg, penality |-> penality, hook_err |-> {}]

DeferredTypes ==
    {"OverrideBasicRule", "ExecuteBeforeTurnChange", "ExecuteAfterTurnChange"}

\* a function of a module has been called, the call being the last of the
\* trace: the Err it returns, if it fails, is on its way up (`?`)
Hooked(x, failed) == IF failed THEN Fail(x, "Err:Hook") ELSE x

\* mao_core.rs:1562-1564 and 1568-1570: the hooks (`call`: "before" or
\* "after") of the deferred verdicts at the places `places` of `not_ignored`
\* called one after the other, each call kept in the trace with the place of
\* its verdict; the Err of a hook ends the loop (`?`)
RECURSIVE call_hooks(_, _, _, _, _, _)
call_hooks(x, not_ignored, places, call, site, player_index) ==
    IF places = <<>> \/ ~Ok(x) THEN x
    ELSE call_hooks(Hooked(Called(x, call, site, player_index, <<Head(places)>>),
                           call \in not_ignored[Head(places)].hook_err),
                    not_ignored, Tail(places), call, site, player_index)

\* mao_core.rs:1525-1530: the cross-rule callbacks of `callbacks` called one
\* after the other, each call kept in the trace with the type of the verdict
\* it returns and the types of the deferred verdicts it is given; the Err of
\* a callback ends the loop (`?`)
RECURSIVE call_callbacks(_, _, _, _)
call_callbacks(x, callbacks, player_index, given) ==
    IF callbacks = <<>> \/ ~Ok(x) THEN x
    ELSE call_callbacks(Hooked(Called(x, "other_rules_callback", 1528, player_index,
                                      <<Head(callbacks).other_rules_callback,
                                        ResTypes(given)>>),
                               "callback" \in Head(callbacks).hook_err),
                        Tail(callbacks), player_index, given)

\* every verdict of a callback joins the deferred verdicts
second_pass_unsorted(results_on_results) == results_on_results

\* mao_core.rs:1531-1541: the verdicts of the callbacks that join the
\* deferred verdicts
second_pass(results_on_results) ==
    SelectSeq(results_on_results, LAMBDA r : r.res_type \in DeferredTypes)

\* the places (1-based) of the verdicts of a type in a list of verdicts
PlacesOf(verdicts, res_type) ==
    SelectSeq([i \in 1..Len(verdicts) |-> i], LAMBDA i : verdicts[i].res_type = res_type)

\* mao_core.rs:1543-1571: the deferred verdicts sorted out, then the Before
\* hooks, the default turn-advance unless overrided, the After hooks
execute_deferred(x, player_index, previous_event, not_ignored) ==
    LET overrided == \E i \in 1..Len(not_ignored) :
                        not_ignored[i].res_type # "OverrideBasicRule"
        x2 == call_hooks(Called(x, "deferred", 1544, player_index, ResTypes(not_ignored)),
                         not_ignored, PlacesOf(not_ignored, "ExecuteBeforeTurnChange"),
                         "before", 1563, player_index)
        x3 == IF overrided \/ ~Ok(x2) THEN x2
              ELSE next_player(Called(x2, "next_player", 1566, player_index,
                                      <<previous_event.kind>>),
                               player_index, previous_event, FALSE)
    IN IF Ok(x3)
       THEN call_hooks(x3, not_ignored, PlacesOf(not_ignored, "ExecuteAfterTurnChange"),
                       "after", 1569, player_index)
       ELSE x3

\* mao_core.rs:1492-1575: [x, wrong: the violations handed back]
propagate_on_event_results_and_execute(x, player_index, previous_event, event_results) ==
    IF all_ignored(event_results) THEN [x |-> x, wrong |-> <<>>]
    ELSE
    LET violations == SelectSeq(event_results,
                                LAMBDA r : r.res_type \in {"Disallow", "ForgetSomething"})
        wrong_interactions ==
            [i \in 1..Len(violations) |->
                Failing(WrongPlayerInteraction_new(
                            IF violations[i].res_type = "Disallow" THEN "Disallow"
                            ELSE "ForgotSomething",
                            "rule", "", violations[i].penality),
                        violations[i].hook_err \cap {"penality"})]
        first_pass == SelectSeq(event_results, LAMBDA r : r.res_type \in DeferredTypes)
        callbacks == SelectSeq(event_results, LAMBDA r : r.other_rules_callback # "None")
        results_on_results ==
            [i \in 1..Len(callbacks) |->
                Failing(MaoEventResult_new(callbacks[i].other_rules_callback, FALSE, "None"),
                        callbacks[i].hook_err)]
        not_ignored == first_pass \o second_pass(results_on_results)
    IN With(call_callbacks(x, callbacks, player_index, first_pass),
            LAMBDA called :
            IF ~Ok(called) THEN Returning(called, <<>>)
            ELSE Returning(execute_deferred(called, player_index, previous_event,
                                            not_ignored),
                           wrong_interactions))

\* the 0-based indexes of the stacks of a type (mao_core.rs:1137-1152)
get_specific_stacks(mao, stack_types) ==
    SelectSeq([i \in 1..Len(mao.stacks) |-> i - 1],
              LAMBDA i : mao.stacks[i + 1].stack_type \in stack_types)

\* mao_core.rs:1633-1645: [stacks, cards] after stacks_spe[i..] have been
\* emptied into cards, a played stack keeping its top card
RECURSIVE collect_stacks(_, _, _)
collect_stacks(stacks, stacks_spe, cards) ==
    IF stacks_spe = <<>> THEN [stacks |-> stacks, cards |-> cards]
    ELSE LET i == Head(stacks_spe) + 1
             old == stacks[i].cards
         IN IF stacks[i].stack_type = "Playable" /\ old # <<>>
            THEN collect_stacks([stacks EXCEPT ![i].cards = <<old[Len(old)]>>],
                                Tail(stacks_spe), cards \o Front(old))
            ELSE collect_stacks([stacks EXCEPT ![i].cards = <<>>],
                                Tail(stacks_spe), cards \o old)

\* mao_core.rs:1598-1654; stack_index is <<>> (None) or <<i>>
refill_drawable_stacks(x, stack_index, check_rules, ans) ==
    LET drawable == get_specific_stacks(x.mao, {"Drawable"})
        index == IF stack_index # <<>> THEN stack_index[1] ELSE drawable[1]
    IN IF drawable = <<>> THEN Fail(x, "Err:NoStackAvailable")
       ELSE
       With(IF check_rules THEN on_event(x, StackPropertyRunsOut(index), ans)
            ELSE [x |-> x, results |-> <<>>],
            LAMBDA r :
       IF ~Ok(r.x) \/ ~all_ignored(r.results) THEN r.x
       ELSE
       With(collect_stacks(r.x.mao.stacks,
                           get_specific_stacks(r.x.mao, {"Playable", "Discardable"}),
                           <<>>),
            LAMBDA got :
       IF index >= Len(got.stacks)
       THEN Fail([r.x EXCEPT !.mao.stacks = got.stacks], "Err:InvalidStackIndex")
       ELSE [r.x EXCEPT !.mao.stacks =
                            [got.stacks EXCEPT ![index + 1].cards = @ \o got.cards]]))

\* mao_core.rs:962-978: [stacks, nb, cards] after the drawable stacks have
\* given what they can of the nb cards wanted
RECURSIVE take_cards(_, _, _, _)
take_cards(stacks, drawable_stacks, nb, cards) ==
    IF drawable_stacks = <<>> THEN [stacks |-> stacks, nb |-> nb, cards |-> cards]
    ELSE LET i == Head(drawable_stacks) + 1
             old == stacks[i].cards
         IN IF Len(old) >= nb
            THEN [stacks |-> [stacks EXCEPT ![i].cards = SubSeq(old, 1, Len(old) - nb)],
                  nb |-> 0,
                  cards |-> cards \o SubSeq(old, Len(old) - nb + 1, Len(old))]
            ELSE take_cards([stacks EXCEPT ![i].cards = <<>>], Tail(drawable_stacks),
                            nb - Len(old), cards \o old)

\* mao_core.rs:947-981, the loop: [x, cards]
RECURSIVE draw_loop(_, _, _, _, _)

\* draw_loop handing back the cards it has when the stacks stay empty
draw_loop_handing_back_less(x, nb, cards, empty_first, ans) ==
    IF nb = 0 THEN [x |-> x, cards |-> cards]
    ELSE LET drawable_stacks == get_specific_stacks(x.mao, {"Drawable"})
             t == take_cards(x.mao.stacks, drawable_stacks, nb, cards)
         IN IF \A i \in Range(drawable_stacks) : x.mao.stacks[i + 1].cards = <<>>
            THEN IF empty_first THEN [x |-> x, cards |-> cards]
                 ELSE With(refill_drawable_stacks(x, <<>>, TRUE, ans),
                           LAMBDA x1 :
                           IF Ok(x1) THEN draw_loop(x1, nb, cards, TRUE, ans)
                           ELSE [x |-> x1, cards |-> <<>>])
            ELSE With(refill_drawable_stacks([x EXCEPT !.mao.stacks = t.stacks],
                                             <<>>, FALSE, ans),
                      LAMBDA x1 :
                      IF Ok(x1) THEN draw_loop(x1, t.nb, t.cards, empty_first, ans)
                      ELSE [x |-> x1, cards |-> <<>>])

draw_loop(x, nb, cards, empty_first, ans) ==
    IF nb = 0 THEN [x |-> x, cards |-> cards]
    ELSE LET drawable_stacks == get_specific_stacks(x.mao, {"Drawable"})
             t == take_cards(x.mao.stacks, drawable_stacks, nb, cards)
         IN IF \A i \in Range(drawable_stacks) : x.mao.stacks[i + 1].cards = <<>>
            THEN IF empty_first THEN [x |-> Fail(x, "Err:NotEnoughCards"), cards |-> <<>>]
                 ELSE With(refill_drawable_stacks(x, <<>>, TRUE, ans),
                           LAMBDA x1 :
                           IF Ok(x1) THEN draw_loop(x1, nb, cards, TRUE, ans)
                           ELSE [x |-> x1, cards |-> <<>>])
            ELSE With(refill_drawable_stacks([x EXCEPT !.mao.stacks = t.stacks],
                                             <<>>, FALSE, ans),
                      LAMBDA x1 :
                      IF Ok(x1) THEN draw_loop(x1, t.nb, t.cards, empty_first, ans)
                      ELSE [x |-> x1, cards |-> <<>>])

\* mao_core.rs:944-983
draw_multiple_cards_unchosen(x, nb, ans) == draw_loop(x, nb, <<>>, FALSE, ans)

\* mao_core.rs:236-246
common_penality_to_player(x, player_index, ans) ==
    With(draw_multiple_cards_unchosen(x, 1, ans),
         LAMBDA d :
         IF ~Ok(d.x) THEN d.x
         ELSE IF player_index >= Len(d.x.mao.players)
         THEN Fail(d.x, "Err:InvalidPlayerIndex")
         ELSE Called([d.x EXCEPT !.mao.players[player_index + 1] =
                                     Append(@, d.cards[Len(d.cards)])],
                     "common_penality", 241, player_index, <<>>))

\* the run at the end of on_penality: the trace keeps how it stands, the
\* hands and the stacks
PenalityEnd(x, player_index) ==
    Called(x, "on_penality_end", 533, player_index,
           <<x.status, x.mao.players, x.mao.stacks>>)

\* on_penality giving the default penalty whatever the modules answer
on_penality_whatever(x, player_index, site, ans) ==
    With(on_event(Called(x, "on_penality", site, player_index,
                         <<x.mao.players, x.mao.stacks>>),
                  PlayerPenality(player_index), ans),
         LAMBDA r :
         PenalityEnd(IF Ok(r.x) THEN common_penality_to_player(r.x, player_index, ans)
                     ELSE r.x,
                     player_index))

\* mao_core.rs:521-534, called from line `site`; the trace keeps the hands
\* and the stacks on entry
on_penality(x, player_index, site, ans) ==
    With(on_event(Called(x, "on_penality", site, player_index,
                         <<x.mao.players, x.mao.stacks>>),
                  PlayerPenality(player_index), ans),
         LAMBDA r :
         PenalityEnd(IF Ok(r.x) /\ all_ignored(r.results)
                     THEN common_penality_to_player(r.x, player_index, ans)
                     ELSE r.x,
                     player_index))

\* The loops of mao_core.rs:549-569, 702-719 and 810-822: each violation's
\* own hook when it has one, else on_penality; `hook_site` and `site` are the
\* lines the two calls are made from; the Err of either ends the loop (`?`)
RECURSIVE penalize(_, _, _, _, _, _)
penalize(x, wrong_int, player_index, hook_site, site, ans) ==
    IF wrong_int = <<>> \/ ~Ok(x) THEN x
    ELSE penalize(IF Head(wrong_int).penality
                  THEN Hooked(Called(x, "penality", hook_site, player_index, <<>>),
                              "penality" \in Head(wrong_int).hook_err)
                  ELSE on_penality(x, player_index, site, ans),
                  Tail(wrong_int), player_index, hook_site, site, ans)

\* The loops of mao_core.rs:272-288 and 314-331: the same for a Disallow, but a
\* ForgotSomething ends the operation with Error::OnMaoInteraction
RECURSIVE penalize_disallows(_, _, _, _, _, _)
penalize_disallows(x, wrong_int, player_index, hook_site, site, ans) ==
    IF wrong_int = <<>> \/ ~Ok(x) THEN x
    ELSE IF Head(wrong_int).kind = "ForgotSomething"
    THEN Fail(x, "Err:OnMaoInteraction")
    ELSE penalize_disallows(IF Head(wrong_int).penality
                            THEN Hooked(Called(x, "penality", hook_site, player_index,
                                               <<>>),
                                        "penality" \in Head(wrong_int).hook_err)
                            ELSE on_penality(x, player_index, site, ans),
                            Tail(wrong_int), player_index, hook_site, site, ans)

\* mao_core.rs:660-668: the player of an occurrence, <<>> (None) for the
\* occurrences that are nobody's
event_res(event) ==
    IF event.kind \in {"PlayedCardEvent", "DiscardCardEvent", "DrawedCardEvent",
                       "SayEvent", "PhysicalEvent"}
    THEN <<event.player_index>> ELSE <<>>

\* mao_core.rs:653-678: going down from index i (0-based), [range_end: the
\* end of the last range set, 0 when none was; indexes: <<index, remove>> in
\* the order met]
RECURSIVE scan_events(_, _, _, _, _)
scan_events(player_events, player_turn, i, range_end, indexes) ==
    IF i < 0 THEN [range_end |-> range_end, indexes |-> indexes]
    ELSE LET event == player_events[i + 1]
         IN IF can_change_turn(event)
            THEN scan_events(player_events, player_turn, i - 1, i + 1, indexes)
            ELSE scan_events(player_events, player_turn, i - 1, range_end,
                             Append(indexes, <<i, event_res(event) # <<player_turn>>>>))

\* str::contains: `word` is a part of `message`
contains(message, word) ==
    \E i \in 1..(Len(message) - Len(word) + 1) :
        SubSeq(message, i, i + Len(word) - 1) = word

\* the lists of a list, one after the other
RECURSIVE Flatten(_)
Flatten(lists) == IF lists = <<>> THEN <<>> ELSE Head(lists) \o Flatten(Tail(lists))

\* mao_core.rs:746-805: what the players of the cards played in `events`
\* forgot, in order
forgotten_by(events, card_event) ==
    LET card_effects == get_card_effects(card_event.card[1])
        said(word) == \E i \in 1..Len(events) :
                         /\ events[i].kind = "SayEvent"
                         /\ events[i].player_index = card_event.player_index
                         /\ contains(events[i].message, word)
        missed(effect) ==
            IF effect.effect = "Say"
            THEN IF \E w \in 1..Len(effect.words) : ~said(effect.words[w])
                 THEN <<WrongPlayerInteraction_new("ForgotSomething", "basic", "Say", FALSE)>>
                 ELSE <<>>
            ELSE IF effect.effect = "Physical"
            THEN IF \E i \in 1..Len(events) :
                        events[i] = PhysicalEvent(card_event.player_index, effect.words[1])
                 THEN <<>>
                 ELSE <<WrongPlayerInteraction_new("ForgotSomething", "basic", "Do", FALSE)>>
            ELSE <<>>
    IN Flatten([e \in 1..Len(card_effects) |-> missed(card_effects[e])])

RECURSIVE forgotten(_, _)
forgotten(events, i) ==
    IF i > Len(events) THEN <<>>
    ELSE (IF events[i].kind = "PlayedCardEvent" THEN forgotten_by(events, events[i])
          ELSE <<>>) \o forgotten(events, i + 1)

\* the log never loses its last entry
pop_if_wrong_never(player_events, wrong_interaction) == player_events

\* mao_core.rs:647-650: the log after `self.player_events.pop()` when
\* wrong_interaction is true, the log as it is when false
pop_if_wrong(player_events, wrong_interaction) ==
    IF wrong_interaction /\ player_events # <<>>
    THEN Front(player_events) ELSE player_events

\* mao_core.rs:639-824: [x, wrong]; the trace keeps the log on entry,
\* wrong_interaction, the events taken for the EndPlayerTurn occurrence and
\* the log left (639-690), under player_turn; when the engine's own
\* check of the cards played is reached (732), the trace keeps the events it
\* goes through and the violations it finds, under the player they are put on
\* (previous_player_turn)
on_turn_ends(x, wrong_interaction, ans) ==
    LET player_events == x.mao.player_events
        last_index == IF player_events = <<>> THEN 0 ELSE Len(player_events) - 1
        popped == pop_if_wrong(player_events, wrong_interaction)
        scan == scan_events(popped, x.mao.player_turn, last_index - 1, 0, <<>>)
        taken == [k \in 1..Len(scan.indexes) |-> popped[scan.indexes[k][1] + 1]]
        removed == {scan.indexes[k][1] + 1 : k \in {j \in 1..Len(scan.indexes) :
                                                      scan.indexes[j][2]}}
        kept == SelectSeq([k \in 1..Len(popped) |-> k], LAMBDA k : k \notin removed)
        left == [k \in 1..Len(kept) |-> popped[kept[k]]]
        datas == taken \o Reverse(SubSeq(left, 1, scan.range_end))
        rest == SubSeq(left, scan.range_end + 1, Len(left))
        event == EndPlayerTurn(datas)
        wrong_int == forgotten(datas, 1)
        reconciled == Called([x EXCEPT !.mao.player_events = rest], "on_turn_ends", 639,
                             x.mao.player_turn,
                             <<player_events, wrong_interaction, datas, rest>>)
    IN IF scan.range_end > Len(left)
       THEN [x |-> Fail(Called([x EXCEPT !.mao.player_events = left], "on_turn_ends",
                               639, x.mao.player_turn,
                               <<player_events, wrong_interaction, taken, left>>),
                        "panic:drain"),
             wrong |-> <<>>]
       ELSE IF datas = <<>>
       THEN [x |-> reconciled, wrong |-> <<>>]
       ELSE
       With(on_event(reconciled, event, ans),
            LAMBDA r :
       IF ~Ok(r.x) THEN [x |-> r.x, wrong |-> <<>>]
       ELSE
       With(propagate_on_event_results_and_execute(r.x, r.x.mao.player_turn, event,
                                                   r.results),
            LAMBDA p :
       IF ~Ok(p.x) THEN [x |-> p.x, wrong |-> <<>>]
       ELSE IF p.wrong # <<>>
       THEN Returning(penalize(p.x, p.wrong, p.x.mao.player_turn, 706, 708, ans),
                      p.wrong)
       ELSE IF \/ p.x.mao.previous_player_turn = <<>>
               \/ p.x.mao.previous_player_turn[1] >= Len(p.x.mao.players)
       THEN [x |-> p.x, wrong |-> <<>>]
       ELSE Returning(penalize(Called(p.x, "basic_check", 732,
                                      p.x.mao.previous_player_turn[1],
                                      <<datas, wrong_int>>),
                               wrong_int, p.x.mao.previous_player_turn[1],
                               814, 816, ans),
                      wrong_int)))

\* mao_core.rs:1049-1072; stack is <<>> (None) or <<the stack>>
can_play(mao, player_index, card, stack) ==
    IF player_index # mao.player_turn THEN "WrongTurn"
    ELSE IF /\ stack # <<>>
            /\ stack[1].cards # <<>>
            /\ LET top_card == stack[1].cards[Len(stack[1].cards)]
               IN /\ card.value # top_card.value
                  /\ get_color(card) # get_color(top_card)
    THEN "CannotPlaceThisCard"
    ELSE "CanPlay"

\* Vec::remove at a 0-based index
Vec_remove(list, index) ==
    SubSeq(list, 1, index) \o SubSeq(list, index + 2, Len(list))

\* mao_core.rs:605-623, the card is played: on the stack or on a new played
\* stack, out of the hand, then the turn moves
place_card(x, card_event) ==
    LET stacks == x.mao.stacks
        hand == x.mao.players[card_event.player_index + 1]
        x1 == IF card_event.stack_index # <<>>
              THEN [x EXCEPT !.mao.stacks[card_event.stack_index[1] + 1].cards =
                                 Append(@, card_event.played_card)]
              ELSE [x EXCEPT !.mao.stacks =
                                 Append(@, Stack_new(<<card_event.played_card>>, "Playable"))]
    IN IF card_event.stack_index # <<>> /\ card_event.stack_index[1] >= Len(stacks)
       THEN Fail(x, "Err:InvalidStackIndex")
       ELSE IF card_event.card_index >= Len(hand)
       THEN Fail(x1, "Err:InvalidCardIndex")
       ELSE next_player([x1 EXCEPT !.mao.players[card_event.player_index + 1] =
                                       Vec_remove(hand, card_event.card_index)],
                        card_event.player_index,
                        PlayedCardEvent(card_event.player_index, card_event.played_card),
                        FALSE)

\* CardEvent (mao_event/card_event.rs:4-9)
CardEvent_new(card, player_index, stack_index, card_index) ==
    [played_card |-> card, player_index |-> player_index,
     stack_index |-> stack_index, card_index |-> card_index]

\* mao_core.rs:536-625: [x, wrong]
on_play_card(x, card_event, ans) ==
    LET player_index == card_event.player_index
        event == PlayedCardEvent(player_index, card_event.played_card)
    IN
    With(on_event(x, event, ans),
         LAMBDA r :
    IF ~Ok(r.x) THEN [x |-> r.x, wrong |-> <<>>]
    ELSE
    With(propagate_on_event_results_and_execute(r.x, player_index, event, r.results),
         LAMBDA p :
    IF ~Ok(p.x) THEN [x |-> p.x, wrong |-> <<>>]
    ELSE IF p.wrong # <<>>
    THEN With(penalize(p.x, p.wrong, player_index, 553, 555, ans),
              LAMBDA punished :
              IF ~Ok(punished) THEN [x |-> punished, wrong |-> <<>>]
              ELSE With(on_turn_ends(punished, TRUE, ans),
                        LAMBDA ends : Returning(ends.x, p.wrong \o ends.wrong)))
    ELSE
    LET stack == IF card_event.stack_index # <<>>
                    /\ card_event.stack_index[1] < Len(p.x.mao.stacks)
                 THEN <<p.x.mao.stacks[card_event.stack_index[1] + 1]>> ELSE <<>>
        player_turn_res == can_play(p.x.mao, player_index, card_event.played_card, stack)
    IN IF player_turn_res # "CanPlay"
       THEN With(on_turn_ends(p.x, TRUE, ans),
                 LAMBDA ends :
                 IF ~Ok(ends.x) THEN [x |-> ends.x, wrong |-> <<>>]
                 ELSE With(on_penality(ends.x, player_index, 584, ans),
                           LAMBDA refused :
                           IF ~Ok(refused) THEN [x |-> refused, wrong |-> <<>>]
                           ELSE Returning(
                                    next_player(refused, player_index, event, TRUE),
                                    Append(ends.wrong,
                                           WrongPlayerInteraction_new(
                                               "Disallow", "Basic Rules",
                                               player_turn_res, FALSE)))))
       ELSE With(on_turn_ends(p.x, FALSE, ans),
                 LAMBDA ends :
                 IF ~Ok(ends.x) THEN [x |-> ends.x, wrong |-> <<>>]
                 ELSE Returning(place_card(ends.x, card_event), ends.wrong))))

\* mao_core.rs:826-885, given [SelectCard(card_index), SelectPlayableStack(stack_index)]
play_interaction(x, player_index, card_index, stack_index, ans) ==
    IF player_index >= Len(x.mao.players) THEN [x |-> Fail(x, "panic:unwrap"), wrong |-> <<>>]
    ELSE IF card_index >= Len(x.mao.players[player_index + 1])
    THEN [x |-> Fail(x, "panic:unwrap"), wrong |-> <<>>]
    ELSE IF stack_index # <<>> /\ stack_index[1] >= Len(x.mao.stacks)
    THEN [x |-> Fail(x, "Err:InvalidStackIndex"), wrong |-> <<>>]
    ELSE on_play_card(x, CardEvent_new(x.mao.players[player_index + 1][card_index + 1],
                                       player_index, stack_index, card_index),
                      ans)

\* mao_core.rs:1720-1748: <<>> or <<the 0-based index of the first drawable
\* stack that has cards>>
get_none_empty_drawable_stack(mao) ==
    LET found == SelectSeq(get_specific_stacks(mao, {"Drawable"}),
                           LAMBDA i : mao.stacks[i + 1].cards # <<>>)
    IN IF found = <<>> THEN <<>> ELSE <<found[1]>>

\* mao_core.rs:1749-1781: [x, index]
verify_or_get_none_empty_drawable_stack(x, stack_index, ans) ==
    IF stack_index # <<>>
    THEN LET index == stack_index[1]
         IN IF index >= Len(x.mao.stacks)
            THEN [x |-> Fail(x, "Err:InvalidStackIndex"), index |-> index]
            ELSE IF x.mao.stacks[index + 1].cards # <<>> THEN [x |-> x, index |-> index]
            ELSE With(refill_drawable_stacks(x, stack_index, TRUE, ans),
                      LAMBDA refilled :
                      IF ~Ok(refilled) THEN [x |-> refilled, index |-> index]
                      ELSE IF refilled.mao.stacks[index + 1].cards = <<>>
                      THEN [x |-> Fail(refilled, "Err:NotEnoughCards"), index |-> index]
                      ELSE [x |-> refilled, index |-> index])
    ELSE LET first == get_none_empty_drawable_stack(x.mao)
         IN IF first # <<>> THEN [x |-> x, index |-> first[1]]
            ELSE With(refill_drawable_stacks(x, <<>>, TRUE, ans),
                      LAMBDA refilled :
                      IF ~Ok(refilled) THEN [x |-> refilled, index |-> 0]
                      ELSE IF get_none_empty_drawable_stack(refilled.mao) = <<>>
                      THEN [x |-> Fail(refilled, "Err:NoStackAvailable"), index |-> 0]
                      ELSE [x |-> refilled,
                            index |-> get_none_empty_drawable_stack(refilled.mao)[1]])

\* mao_core.rs:1783-1846: [x, wrong]
on_draw_card(x, card_event, ans) ==
    LET player_index == card_event.player_index
    IN
    With(verify_or_get_none_empty_drawable_stack(x, card_event.stack_index, ans),
         LAMBDA v :
    IF ~Ok(v.x) THEN [x |-> v.x, wrong |-> <<>>]
    ELSE IF player_index >= Len(v.x.mao.players)
    THEN [x |-> Fail(v.x, "Err:InvalidPlayerIndex"), wrong |-> <<>>]
    ELSE
    LET stack_index == v.index
        from == v.x.mao.stacks[stack_index + 1].cards
        card == from[Len(from)]
        event == DrawedCardEvent(player_index, card)
        r == on_event([v.x EXCEPT !.mao.stacks[stack_index + 1].cards = Front(from)],
                      event, ans)
        values == SelectSeq(r.results, LAMBDA result : result.res_type # "Ignored")
    IN
    IF ~Ok(r.x) THEN [x |-> r.x, wrong |-> <<>>]
    ELSE
    With(IF player_index = r.x.mao.player_turn THEN on_turn_ends(r.x, TRUE, ans)
         ELSE [x |-> r.x, wrong |-> <<>>],
         LAMBDA ends :
    IF ~Ok(ends.x) THEN [x |-> ends.x, wrong |-> <<>>]
    ELSE IF all_ignored(r.results)
    THEN LET turned == IF ends.x.mao.player_turn = player_index
                       THEN [ends.x EXCEPT !.mao = update_turn(@, PlayerTurnChange_default)]
                       ELSE ends.x
         IN [x |-> [turned EXCEPT !.mao.players[player_index + 1] = Append(@, card)],
             wrong |-> ends.wrong]
    ELSE With(propagate_on_event_results_and_execute(
                  [ends.x EXCEPT !.mao.stacks[stack_index + 1].cards = Append(@, card)],
                  player_index, event, values),
              LAMBDA p : Returning(p.x, p.wrong \o ends.wrong))))

\* mao_core.rs:336-358, given [SelectDrawableStack(stack_index)]; the card of
\* the CardEvent is Card::default() until on_draw_card has drawn one
draw_interaction(x, player_index, stack_index, ans) ==
    on_draw_card(x, CardEvent_new(<<>>, player_index, stack_index, 0), ans)

\* mao_core.rs:265-290
on_say_action(x, player_index, message, ans) ==
    LET event == SayEvent(player_index, message)
        r == on_event(x, event, ans)
    IN IF ~Ok(r.x) THEN [x |-> r.x, wrong |-> <<>>]
       ELSE
       With(propagate_on_event_results_and_execute(r.x, player_index, event, r.results),
            LAMBDA p :
            IF ~Ok(p.x) THEN [x |-> p.x, wrong |-> <<>>]
            ELSE [x |-> penalize_disallows(p.x, p.wrong, player_index, 276, 278, ans),
                  wrong |-> <<>>])

\* mao_core.rs:292-334, given [SelectPlayer, DoAction(physical_name)]
on_action_interaction(x, player_index, physical_name, ans) ==
    LET event == PhysicalEvent(player_index, physical_name)
        r == on_event(x, event, ans)
    IN IF ~Ok(r.x) THEN [x |-> r.x, wrong |-> <<>>]
       ELSE
       With(propagate_on_event_results_and_execute(r.x, player_index, event, r.results),
            LAMBDA p :
            IF ~Ok(p.x) THEN [x |-> p.x, wrong |-> <<>>]
            ELSE Returning(penalize_disallows(p.x, p.wrong, player_index, 318, 320, ans),
                           p.wrong))

\* a rule module that also declares action paths (RuleData::actions, rule.rs:20)
Declaring(kinds, result, actions) ==
    [kinds |-> kinds, result |-> result, actions |-> actions]

\* rule.rs:73-75: the action paths a module declares, <<>> when it declares
\* none (None)
get_actions(rule) == IF "actions" \in DOMAIN rule THEN rule.actions ELSE <<>>

\* activate_rule_by_index without the test of lines 1007-1011
activate_rule_by_index_again(x, a, index) ==
    IF index >= Len(x.mao.available_rules)
    THEN [x |-> Fail(x, "Err:InvalidRuleIndex"), a |-> a]
    ELSE LET r == extend(a, get_actions(x.mao.available_rules[index + 1]))
         IN IF r.panic THEN [x |-> Fail(x, "panic:insert"), a |-> r.a]
            ELSE [x |-> [x EXCEPT !.mao.activated_rules = Append(@, index)],
                  a |-> r.a]

\* mao_core.rs:1002-1024, `a` being the engine's automaton: [x, a]; the
\* module's paths are merged into the automaton, which panics on a leaf
\* that is already there
activate_rule_by_index(x, a, index) ==
    IF index >= Len(x.mao.available_rules)
    THEN [x |-> Fail(x, "Err:InvalidRuleIndex"), a |-> a]
    ELSE IF index \in Range(x.mao.activated_rules)
    THEN [x |-> Fail(x, "Err:RuleAlreadyActivated"), a |-> a]
    ELSE LET r == extend(a, get_actions(x.mao.available_rules[index + 1]))
         IN IF r.panic THEN [x |-> Fail(x, "panic:insert"), a |-> r.a]
            ELSE [x |-> [x EXCEPT !.mao.activated_rules = Append(@, index)],
                  a |-> r.a]

\* mao_core.rs:1026-1044: the automaton is not touched (TODO of line 1027)
deactivate_rule_by_index(x, index) ==
    IF index >= Len(x.mao.available_rules) THEN Fail(x, "Err:InvalidRuleIndex")
    ELSE IF index \notin Range(x.mao.activated_rules)
    THEN Fail(x, "Err:RuleNotActivated")
    ELSE [x EXCEPT !.mao.activated_rules = SelectSeq(@, LAMBDA id : id # index)]

\* rule.rs:41-58, 91-93: the light file names of the modules from_config
\* found, "lib" and a letter each, the module of index i bearing the i-th
LightFilenames == <<"liba", "libb", "libc">>
light_filename(index) == LightFilenames[index + 1]

\* mao_core.rs:1082-1084, 1108-1119: the indexes of the modules bearing the
\* name, the least first
get_avalaible_rule_by_name(mao, rule_name) ==
    SelectSeq([i \in 1..Len(mao.available_rules) |-> i - 1],
              LAMBDA index : light_filename(index) = rule_name)

\* mao_core.rs:990-1000: the index found is pushed, whatever the list holds,
\* and the automaton is not touched
activate_rule(x, rule_name) ==
    LET found == get_avalaible_rule_by_name(x.mao, "lib" \o rule_name)
    IN IF found = <<>> THEN Fail(x, "Err:RuleNotFound")
       ELSE [x EXCEPT !.mao.activated_rules = Append(@, found[1])]

\* mao_core.rs:494-515
MaoCore_new(available_libraries, stacks, players) ==
    [available_rules |-> available_libraries, activated_rules |-> <<>>,
     stacks |-> stacks, players |-> players, player_turn |-> 1, turn |-> 1,
     player_events |-> <<>>, previous_player_turn |-> <<>>]

\* mao_core.rs:412-451, the rule modules found being `libraries` and the
\* shuffle of the deck giving `draw`
from_config(libraries, draw) == MaoCore_new(libraries, init_stacks(draw), <<>>)

\* mao_core.rs:1314-1319: [x, cards: the hand of the player handed back];
\* the player is not added to the players of the engine
init_player(x, nb_card, ans) == draw_multiple_cards_unchosen(x, nb_card, ans)

\* mao_core.rs:1323-1326: the players one after the other, each with the
\* nb_card cards drawn for it
RECURSIVE init_player_loop(_, _, _, _, _)
init_player_loop(x, n, nb_card, players, ans) ==
    IF n = 0 \/ ~Ok(x) THEN [x |-> x, players |-> players]
    ELSE With(init_player(x, nb_card, ans),
              LAMBDA d : init_player_loop(d.x, n - 1, nb_card, Append(players, d.cards),
                                          ans))

\* mao_core.rs:1321-1337: the last player is given a nine of spades more
init_players(x, n, nb_card, ans) ==
    With(init_player_loop(x, n, nb_card, <<>>, ans),
         LAMBDA r :
         IF ~Ok(r.x) THEN r.x
         ELSE IF n = 0 THEN Fail([r.x EXCEPT !.mao.players = <<>>], "panic:unwrap")
         ELSE [r.x EXCEPT !.mao.players =
                              [r.players EXCEPT ![n] = Append(@, Card_new(9, "Spade"))]])

\* mao_core.rs:1340-1347: the players from player i on draw nb_card cards
\* each; an error stops the loop
RECURSIVE init_all_players_from(_, _, _, _)
init_all_players_from(x, i, nb_card, ans) ==
    IF i >= Len(x.mao.players) THEN x
    ELSE With(draw_multiple_cards_unchosen(x, nb_card, ans),
              LAMBDA d :
              IF ~Ok(d.x) THEN d.x
              ELSE init_all_players_from([d.x EXCEPT !.mao.players[i + 1] = @ \o d.cards],
                                         i + 1, nb_card, ans))

\* mao_core.rs:1339-1349
init_all_players(x, nb_card, ans) == init_all_players_from(x, 0, nb_card, ans)

\* mao_core.rs:1351-1362, the shuffle of the new deck giving `draw`: the
\* hands are emptied, the stacks built anew, the log emptied, then the
\* players draw (the reset of the automaton is in the action)
init_new_game(x, nb_card, draw, ans) ==
    init_all_players([x EXCEPT !.mao.players = [i \in 1..Len(@) |-> <<>>],
                               !.mao.stacks = init_stacks(draw),
                               !.mao.player_events = <<>>],
                     nb_card, ans)

\* mao_core.rs:1365-1371
new_played_stack(x, cards) ==
    [x EXCEPT !.mao.stacks = Append(@, Stack_new(cards, "Playable"))]

\* mao_core.rs:1159-1180: "Ok" when the target is there, or the error
get_stack_target(mao, target_index) ==
    IF target_index.kind = "Player"
    THEN IF target_index.index < Len(mao.players) THEN "Ok" ELSE "Err:InvalidPlayerIndex"
    ELSE IF target_index.index < Len(mao.stacks) THEN "Ok" ELSE "Err:InvalidStackIndex"

\* mao_core.rs:1582-1589 with StackProperty::add_card (stack_property.rs:17-19)
push_card_into_stack_target(x, target_index, card) ==
    IF get_stack_target(x.mao, target_index) # "Ok"
    THEN Fail(x, get_stack_target(x.mao, target_index))
    ELSE IF target_index.kind = "Player"
    THEN [x EXCEPT !.mao.players[target_index.index + 1] = Append(@, card)]
    ELSE [x EXCEPT !.mao.stacks[target_index.index + 1].cards = Append(@, card)]

\* mao_core.rs:1661-1667 with StackProperty::remove_card
\* (stack_property.rs:6-15): [x, cards: <<the card taken>>]
remove_card_from_stack_target(x, target_index, card_index) ==
    IF get_stack_target(x.mao, target_index) # "Ok"
    THEN [x |-> Fail(x, get_stack_target(x.mao, target_index)), cards |-> <<>>]
    ELSE LET cards == IF target_index.kind = "Player"
                      THEN x.mao.players[target_index.index + 1]
                      ELSE x.mao.stacks[target_index.index + 1].cards
         IN IF card_index >= Len(cards)
            THEN [x |-> Fail(x, "Err:InvalidCardIndex"), cards |-> <<>>]
            ELSE [x |-> IF target_index.kind = "Player"
                        THEN [x EXCEPT !.mao.players[target_index.index + 1] =
                                           Vec_remove(cards, card_index)]
                        ELSE [x EXCEPT !.mao.stacks[target_index.index + 1].cards =
                                           Vec_remove(cards, card_index)],
                  cards |-> <<cards[card_index + 1]>>]

\* the last operation on the engine and what it was given
CoreOp(name, player_index, card_index, stack_index, message) ==
    [name |-> name, player_index |-> player_index, card_index |-> card_index,
     stack_index |-> stack_index, message |-> message]

\* the engine of SpecAutomaton: MaoCore::new without rule module, stack or
\* player, never used
CoreIdle ==
    LET m == MaoCore_new(<<>>, <<>>, <<>>)
    IN /\ mao_core = m
       /\ c_before = m
       /\ c_op = CoreOp("new", 0, 0, <<>>, "")
       /\ c_status = "Ok"
       /\ c_wrong = <<>>
       /\ c_trace = <<>>
       /\ c_steps = 0
       /\ c_out = <<>>

\* ------------------------------------------------------------------------
\* SpecAutomaton: one Automaton driven through its public operations
\* ------------------------------------------------------------------------
\* An action path as the repository builds them (lib.rs:83-109,
\* mao_core.rs:360-399): no payload in the templates, a handler on the last
\* step only, the same rule tag on every step.
Path(tokens, rule) ==
    [i \in 1..Len(tokens) |->
        NodeState_new(MaoInteraction_new(0, tokens[i]),
                      IF i = Len(tokens) THEN "Some" ELSE "None", rule)]

ValidPaths == {Path(ts, r) : ts \in SeqsOf(Tokens, 1, MaxPathLen), r \in RuleTags}

Interactions == {MaoInteraction_new(d, t) : d \in Payloads, t \in Tokens}

\* the tokens of a path or of a list of interactions
PathTokens(path) == [i \in 1..Len(path) |-> path[i].action.action]
StepTokens(steps) == [i \in 1..Len(steps) |-> steps[i].action]

\* the last operation: its name and, for on_action_indexed, the index given
\* (the other arguments that matter to the properties are in a_hist)
Op(name, index) == [name |-> name, index |-> index]

NoResult == Result("None", <<>>, "None", <<>>)

\* a_hist:
\*   inserted   the paths given to from_iter and extend so far, in order
\*              (kept while fresh)
\*   pristine   only from_iter / extend have run
\*   fresh      remove_paths has not run
\*   fed        the steps that moved the cursor from the root to where it is
\*   attempt    for on_action: fed before the call, then the step given
\*   matches    for on_action(_indexed): how many live children of the cursor
\*              carried the token before the call
\*   ext_before, ext_paths, ext_open   the automaton before the last extend,
\*              the paths it was given, and whether no extend / remove_paths ran since
\*   roundtrip  the last operation was remove_paths(ext_paths) with ext_open
Hist0(paths, a) ==
    [inserted |-> paths, pristine |-> TRUE, fresh |-> TRUE, fed |-> <<>>,
     attempt |-> <<>>, matches |-> 0,
     ext_before |-> a, ext_paths |-> <<>>, ext_open |-> FALSE, roundtrip |-> FALSE]

InitAutomaton ==
    \E paths \in SeqsOf(ValidPaths, 0, MaxInitPaths) :
        /\ ~from_iter(paths).panic
        /\ automaton = from_iter(paths).a
        /\ a_op = Op("from_iter", 0)
        /\ a_result = NoResult
        /\ a_panicked = FALSE
        /\ a_hist = Hist0(paths, from_iter(paths).a)
        /\ CoreIdle

Extend(paths) ==
    /\ ~a_panicked
    /\ Len(automaton.arena) < MaxNodes
    /\ LET r == extend(automaton, paths)
       IN /\ automaton' = r.a
          /\ a_panicked' = r.panic
          /\ a_op' = Op("extend", 0)
          /\ a_result' = NoResult
          /\ a_hist' = [a_hist EXCEPT !.inserted = IF a_hist.fresh THEN @ \o paths ELSE @,
                                      !.attempt = <<>>, !.matches = 0,
                                      !.ext_before = automaton, !.ext_paths = paths,
                                      !.ext_open = ~r.panic, !.roundtrip = FALSE]
    /\ UNCHANGED c_vars

RemovePaths(paths) ==
    /\ ~a_panicked
    /\ LET r == remove_paths(automaton, paths)
       IN /\ automaton' = r.a
          /\ a_panicked' = r.panic
          /\ a_op' = Op("remove_paths", 0)
          /\ a_result' = NoResult
          /\ a_hist' = [a_hist EXCEPT !.pristine = FALSE, !.fresh = FALSE,
                                      !.inserted = <<>>,
                                      !.attempt = <<>>, !.matches = 0,
                                      !.ext_open = FALSE,
                                      !.roundtrip = a_hist.ext_open
                                                    /\ paths = a_hist.ext_paths]
    /\ UNCHANGED c_vars

\* fed after an on_action / on_action_indexed that took the automaton from
\* `before` to `after`: emptied when the cursor is back at the root, one step
\* longer when the cursor moved to a child
FedAfter(before, after, interaction) ==
    IF after.current_state = after.root THEN <<>>
    ELSE IF after.current_state # before.current_state
         THEN Append(a_hist.fed, interaction)
    ELSE a_hist.fed

OnAction(interaction) ==
    /\ ~a_panicked
    /\ LET r == on_action(automaton, interaction)
       IN /\ automaton' = r.a
          /\ a_result' = r.res
          /\ a_op' = Op("on_action", 0)
          /\ a_hist' = [a_hist EXCEPT !.pristine = FALSE,
                                      !.fed = FedAfter(automaton, r.a, interaction),
                                      !.attempt = Append(a_hist.fed, interaction),
                                      !.matches = Len(search_type(automaton,
                                                                  interaction.action)),
                                      !.roundtrip = FALSE]
    /\ UNCHANGED a_panicked
    /\ UNCHANGED c_vars

OnActionIndexed(interaction, index) ==
    /\ ~a_panicked
    /\ LET r == on_action_indexed(automaton, interaction, index)
       IN /\ automaton' = r.a
          /\ a_result' = r.res
          /\ a_op' = Op("on_action_indexed", index)
          /\ a_hist' = [a_hist EXCEPT !.pristine = FALSE,
                                      !.fed = FedAfter(automaton, r.a, interaction),
                                      !.attempt = <<>>,
                                      !.matches = Len(search_type(automaton,
                                                                  interaction.action)),
                                      !.roundtrip = FALSE]
    /\ UNCHANGED a_panicked
    /\ UNCHANGED c_vars

CancelLast ==
    /\ ~a_panicked
    /\ LET r == cancel_last(automaton)
       IN /\ automaton' = r.a
          /\ a_result' = Result(IF r.ret = <<>> THEN "None" ELSE "Some", <<>>, "None", r.ret)
          /\ a_op' = Op("cancel_last", 0)
          /\ a_hist' = [a_hist EXCEPT !.pristine = FALSE,
                                      !.fed = IF r.ret = <<>> \/ @ = <<>> THEN @ ELSE Front(@),
                                      !.attempt = <<>>, !.matches = 0,
                                      !.roundtrip = FALSE]
    /\ UNCHANGED a_panicked
    /\ UNCHANGED c_vars

Reset ==
    /\ ~a_panicked
    /\ automaton' = reset(automaton)
    /\ a_result' = NoResult
    /\ a_op' = Op("reset", 0)
    /\ a_hist' = [a_hist EXCEPT !.pristine = FALSE, !.fed = <<>>,
                                !.attempt = <<>>, !.matches = 0, !.roundtrip = FALSE]
    /\ UNCHANGED a_panicked
    /\ UNCHANGED c_vars

\* what a caller writes through previous_interactions_mut: the list emptied,
\* or replaced by one interaction
PreviousWrites == {<<>>, <<MaoInteraction_new(0, 1)>>}

\* automaton.rs:290-292: the caller holds the list itself and overwrites it
PreviousInteractionsMut(interactions) ==
    /\ ~a_panicked
    /\ automaton' = [automaton EXCEPT !.previous_interactions = interactions]
    /\ a_result' = NoResult
    /\ a_op' = Op("previous_interactions_mut", 0)
    /\ a_hist' = [a_hist EXCEPT !.pristine = FALSE,
                                !.attempt = <<>>, !.matches = 0, !.roundtrip = FALSE]
    /\ UNCHANGED a_panicked
    /\ UNCHANGED c_vars

NextAutomaton ==
    \/ \E paths \in SeqsOf(ValidPaths, 1, MaxCallPaths) : Extend(paths)
    \/ \E paths \in SeqsOf(ValidPaths, 1, MaxCallPaths) : RemovePaths(paths)
    \/ \E interaction \in Interactions : OnAction(interaction)
    \/ \E interaction \in Interactions, index \in 0..MaxIndex :
          OnActionIndexed(interaction, index)
    \/ CancelLast
    \/ Reset
    \/ \E interactions \in PreviousWrites : PreviousInteractionsMut(interactions)

SpecAutomaton == InitAutomaton /\ [][NextAutomaton]_vars

\* ------------------------------------------------------------------------
\* SpecInsert: one Automaton built and rebuilt from action paths whose steps
\* carry a payload, as the paths a rule module declares may (rule.rs:20,
\* NodeState and MaoInteraction have public fields)
\* ------------------------------------------------------------------------
\* a path whose step i carries the payload datas[i]
PayloadPath(tokens, datas, rule) ==
    [i \in 1..Len(tokens) |->
        NodeState_new(MaoInteraction_new(datas[i], tokens[i]),
                      IF i = Len(tokens) THEN "Some" ELSE "None", rule)]

PayloadPaths ==
    {PayloadPath(ts, ds, r) : ts \in SeqsOf(Tokens, 1, MaxPathLen),
                              ds \in SeqsOf(Payloads, MaxPathLen, MaxPathLen),
                              r \in RuleTags}

InitInsert ==
    \E paths \in SeqsOf(PayloadPaths, 0, MaxInitPaths) :
        /\ ~from_iter(paths).panic
        /\ automaton = from_iter(paths).a
        /\ a_op = Op("from_iter", 0)
        /\ a_result = NoResult
        /\ a_panicked = FALSE
        /\ a_hist = Hist0(paths, from_iter(paths).a)
        /\ CoreIdle

\* automaton.rs:573-584: extend, called while the arena is below MaxInsertNodes
ExtendInsert(paths) ==
    /\ ~a_panicked
    /\ Len(automaton.arena) < MaxInsertNodes
    /\ LET r == extend(automaton, paths)
       IN /\ automaton' = r.a
          /\ a_panicked' = r.panic
          /\ a_op' = Op("extend", 0)
          /\ a_result' = NoResult
          /\ a_hist' = [a_hist EXCEPT !.inserted = IF a_hist.fresh THEN @ \o paths ELSE @,
                                      !.attempt = <<>>, !.matches = 0,
                                      !.ext_before = automaton, !.ext_paths = paths,
                                      !.ext_open = ~r.panic, !.roundtrip = FALSE]
    /\ UNCHANGED c_vars

NextInsert ==
    \/ \E paths \in SeqsOf(PayloadPaths, 1, MaxCallPaths) : ExtendInsert(paths)
    \/ \E paths \in SeqsOf(PayloadPaths, 1, MaxCallPaths) : RemovePaths(paths)

SpecInsert == InitInsert /\ [][NextInsert]_vars

\* ------------------------------------------------------------------------
\* SpecRemove: paths removed from an Automaton just built; a_hist keeps, on
\* top of its other fields, the paths given to remove_paths (rm_paths)
\* ------------------------------------------------------------------------
InitRemove ==
    \E paths \in SeqsOf(PayloadPaths, 0, MaxInitPaths) :
        /\ ~from_iter(paths).panic
        /\ automaton = from_iter(paths).a
        /\ a_op = Op("from_iter", 0)
        /\ a_result = NoResult
        /\ a_panicked = FALSE
        /\ a_hist = Hist0(paths, from_iter(paths).a) @@ [rm_paths |-> <<>>]
        /\ CoreIdle

RemoveBuilt(paths) ==
    /\ ~a_panicked
    /\ a_hist.pristine
    /\ LET r == remove_paths(automaton, paths)
       IN /\ automaton' = r.a
          /\ a_panicked' = r.panic
          /\ a_op' = Op("remove_paths", 0)
          /\ a_result' = NoResult
          /\ a_hist' = [a_hist EXCEPT !.pristine = FALSE, !.fresh = FALSE,
                                      !.rm_paths = paths]
    /\ UNCHANGED c_vars

NextRemove ==
    \E paths \in SeqsOf(PayloadPaths, 1, MaxCallPaths) : RemoveBuilt(paths)

SpecRemove == InitRemove /\ [][NextRemove]_vars

\* mao_core.rs:360-399: play a card on a stack, draw from a stack, do a
\* physical action (the tokens by their place in PlayerAction)
generate_actions ==
    <<<<NodeState_new(MaoInteraction_new(0, 1), "None", 0),
        NodeState_new(MaoInteraction_new(0, 3), "Some", 0)>>,
      <<NodeState_new(MaoInteraction_new(0, 4), "Some", 0)>>,
      <<NodeState_new(MaoInteraction_new(0, 2), "None", 0),
        NodeState_new(MaoInteraction_new(0, 7), "Some", 0)>>>>

\* ------------------------------------------------------------------------
\* SpecCore: one MaoCore, set up for a game, driven through its operations
\* ------------------------------------------------------------------------
PlayerIndexes == 0..(NumPlayers - 1)
CardIndexes == 0..MaxCardIndex
\* Option<usize>: <<>> is None
StackIndexes == {<<>>} \cup {<<i>> : i \in 0..MaxStackIndex}
\* what a player may say, "w" being the word cards_effects asks for: the
\* word, a message without it, a message with it inside
Messages == {"w", "x", "xw"}
PhysicalNames == {"knock"}

Panics ==
    {"panic:todo", "panic:drain", "panic:unwrap", "panic:insert", "panic:overflow",
     "panic:unreachable", "panic:rem_by_zero"}

\* the answers of the rule modules of a MaoCore, by 0-based rule index
Answers(m) ==
    [i \in 0..(Len(m.available_rules) - 1) |->
        [k \in EventKinds |-> IF k \in m.available_rules[i + 1].kinds
                               THEN m.available_rules[i + 1].result
                               ELSE Ignored]]

\* the automaton of SpecCore: the one from_config builds (mao_core.rs:440)
AutomatonIdle ==
    LET a == from_iter(generate_actions).a
    IN /\ automaton = a
       /\ a_op = Op("from_iter", 0)
       /\ a_result = NoResult
       /\ a_panicked = FALSE
       /\ a_hist = Hist0(generate_actions, a)

\* from_config with the rule modules found and the deck as shuffled, then
\* init_players for NumPlayers players of NbCards cards
InitCore ==
    \E draw \in generate_common_draw :
        LET m == from_config([i \in 1..NumRules |-> NotCalled], draw)
            x == init_players(Run(m), NumPlayers, NbCards, Answers(m))
        IN /\ Ok(x)
           /\ mao_core = x.mao
           /\ c_before = m
           /\ c_op = CoreOp("init_players", 0, 0, <<>>, "")
           /\ c_status = x.status
           /\ c_wrong = <<>>
           /\ c_trace = x.trace
           /\ c_steps = 0
           /\ c_out = <<>>
           /\ AutomatonIdle

\* the engine is still there (no operation panicked); the model stops after
\* MaxSteps operations
Running == c_steps < MaxSteps /\ c_status \notin Panics

\* `op` ran from mao_core and ended as r.x, handing back r.wrong
Ran(op, r) ==
    /\ mao_core' = r.x.mao
    /\ c_before' = mao_core
    /\ c_op' = op
    /\ c_status' = r.x.status
    /\ c_wrong' = r.wrong
    /\ c_trace' = r.x.trace
    /\ c_steps' = c_steps + 1
    /\ c_out' = <<>>

OnSayAction(player_index, message) ==
    /\ Running
    /\ Ran(CoreOp("on_say_action", player_index, 0, <<>>, message),
           on_say_action(Run(mao_core), player_index, message, Answers(mao_core)))
    /\ UNCHANGED a_vars

PlayInteraction(player_index, card_index, stack_index) ==
    /\ Running
    /\ Ran(CoreOp("play_interaction", player_index, card_index, stack_index, ""),
           play_interaction(Run(mao_core), player_index, card_index, stack_index,
                            Answers(mao_core)))
    /\ UNCHANGED a_vars

DrawInteraction(player_index, stack_index) ==
    /\ Running
    /\ Ran(CoreOp("draw_interaction", player_index, 0, stack_index, ""),
           draw_interaction(Run(mao_core), player_index, stack_index,
                            Answers(mao_core)))
    /\ UNCHANGED a_vars

\* nb cards are asked for (by a rule module, or by the front-end to deal)
DrawMultipleCardsUnchosen(nb) ==
    /\ Running
    /\ LET d == draw_multiple_cards_unchosen(Run(mao_core), nb, Answers(mao_core))
       IN /\ mao_core' = d.x.mao
          /\ c_status' = d.x.status
          /\ c_trace' = d.x.trace
          /\ c_out' = d.cards
    /\ c_before' = mao_core
    /\ c_op' = CoreOp("draw_multiple_cards_unchosen", 0, nb, <<>>, "")
    /\ c_wrong' = <<>>
    /\ c_steps' = c_steps + 1
    /\ UNCHANGED a_vars

OnActionInteraction(player_index, physical_name) ==
    /\ Running
    /\ Ran(CoreOp("on_action_interaction", player_index, 0, <<>>, physical_name),
           on_action_interaction(Run(mao_core), player_index, physical_name,
                                 Answers(mao_core)))
    /\ UNCHANGED a_vars

\* the module activated turns out to be `module`; a_hist keeps the automaton
\* as it was before the activation and the paths the module declares
\* the engine whose module `index`, if there is one, is `module`
Loaded(mao, index, module) ==
    IF index < Len(mao.available_rules)
    THEN [mao EXCEPT !.available_rules[index + 1] = module]
    ELSE mao

ActivateRuleByIndex(index, module) ==
    /\ Running
    /\ index < Len(mao_core.available_rules)
          => mao_core.available_rules[index + 1] \in {NotCalled, module}
    /\ LET r == activate_rule_by_index(Run(Loaded(mao_core, index, module)),
                                       automaton, index)
       IN /\ Ran(CoreOp("activate_rule_by_index", index, 0, <<>>, ""),
                 Returning(r.x, <<>>))
          /\ automaton' = r.a
          /\ a_op' = Op("activate_rule_by_index", index)
          /\ a_hist' = [a_hist EXCEPT !.ext_before = automaton,
                                      !.ext_paths = get_actions(module),
                                      !.ext_open = Ok(r.x)]
    /\ UNCHANGED <<a_result, a_panicked>>

DeactivateRuleByIndex(index) ==
    /\ Running
    /\ Ran(CoreOp("deactivate_rule_by_index", index, 0, <<>>, ""),
           Returning(deactivate_rule_by_index(Run(mao_core), index), <<>>))
    /\ UNCHANGED a_vars

\* the names given to activate_rule: those of the modules, and one more
RuleNames == {"a", "b", "c"}

\* the index activate_rule finds for the name, NumModules when it finds none
IndexNamed(rule_name) ==
    LET found == get_avalaible_rule_by_name(mao_core, "lib" \o rule_name)
    IN IF found = <<>> THEN NumModules ELSE found[1]

ActivateRule(rule_name, module) ==
    /\ Running
    /\ IndexNamed(rule_name) < Len(mao_core.available_rules)
          => mao_core.available_rules[IndexNamed(rule_name) + 1] \in {NotCalled, module}
    /\ Ran(CoreOp("activate_rule", IndexNamed(rule_name), 0, <<>>, rule_name),
           Returning(activate_rule(Run(Loaded(mao_core, IndexNamed(rule_name), module)),
                                   rule_name), <<>>))
    /\ UNCHANGED a_vars

\* The operations below are those a front-end or a rule module calls on the
\* engine besides the players' actions; a run makes at most MaxDirectSteps
\* of them, at its beginning.
Direct == Running /\ c_steps < MaxDirectSteps

\* mao_core.rs:517-519: the step goes to the engine's automaton
CoreOnAction(interaction) ==
    /\ Direct
    /\ Ran(CoreOp("on_action", 0, 0, <<>>, ""), Returning(Run(mao_core), <<>>))
    /\ LET r == on_action(automaton, interaction)
       IN /\ automaton' = r.a
          /\ a_result' = r.res
          /\ a_op' = Op("on_action", 0)
          /\ a_hist' = [a_hist EXCEPT !.pristine = FALSE,
                                      !.fed = FedAfter(automaton, r.a, interaction),
                                      !.attempt = Append(a_hist.fed, interaction),
                                      !.matches = Len(search_type(automaton,
                                                                  interaction.action)),
                                      !.roundtrip = FALSE]
    /\ UNCHANGED a_panicked

\* mao_core.rs:230-232: the caller holds the automaton itself; here it
\* resets it, or cancels its last step and is handed the node left (the
\* call may also follow the step given to on_action)
AutomatonMut(name) ==
    /\ Direct \/ (Running /\ c_op.name = "on_action")
    /\ Ran(CoreOp("automaton_mut", 0, 0, <<>>, name), Returning(Run(mao_core), <<>>))
    /\ automaton' = IF name = "reset" THEN reset(automaton) ELSE cancel_last(automaton).a
    /\ a_result' = IF name = "reset" \/ cancel_last(automaton).ret = <<>>
                   THEN NoResult
                   ELSE Result("Some", <<>>, "None", cancel_last(automaton).ret)
    /\ a_op' = Op(name, 0)
    /\ a_hist' = [a_hist EXCEPT !.pristine = FALSE,
                                !.fed = IF name = "reset" \/ @ = <<>>
                                           \/ cancel_last(automaton).ret = <<>>
                                        THEN IF name = "reset" THEN <<>> ELSE @
                                        ELSE Front(@),
                                !.attempt = <<>>, !.matches = 0, !.roundtrip = FALSE]
    /\ UNCHANGED a_panicked

\* mao_core.rs:906-908: the caller holds the players themselves; here it
\* empties the hand of one
PlayersMut(player_index) ==
    /\ Direct
    /\ player_index < Len(mao_core.players)
    /\ Ran(CoreOp("players_mut", player_index, 0, <<>>, ""),
           Returning(Run([mao_core EXCEPT !.players[player_index + 1] = <<>>]), <<>>))
    /\ UNCHANGED a_vars

\* what a caller does with the stacks it holds: the last one taken away
\* (Vec::pop), the first one taken away (Vec::remove(0)), all of them
\* (Vec::clear)
StackWrites == {"pop", "remove", "clear"}

\* mao_core.rs:926-928: the caller holds the stacks themselves
StacksMut(write) ==
    /\ Direct
    /\ mao_core.stacks # <<>>
    /\ Ran(CoreOp("stacks_mut", 0, 0, <<>>, write),
           Returning(Run([mao_core EXCEPT
                             !.stacks = IF write = "pop" THEN Front(@)
                                        ELSE IF write = "remove" THEN Tail(@)
                                        ELSE <<>>]), <<>>))
    /\ UNCHANGED a_vars

\* mao_core.rs:1092-1094, 1102-1104, 1137-1152: the caller holds the stacks
\* of the types; here it empties the first of them
GetSpecificStacksMut(stack_types) ==
    /\ Direct
    /\ get_specific_stacks(mao_core, stack_types) # <<>>
    /\ Ran(CoreOp("get_specific_stacks_mut", 0, 0,
                  <<get_specific_stacks(mao_core, stack_types)[1]>>, ""),
           Returning(Run([mao_core EXCEPT
                             !.stacks[get_specific_stacks(mao_core, stack_types)[1] + 1]
                                 .cards = <<>>]), <<>>))
    /\ UNCHANGED a_vars

InitPlayer(nb_card) ==
    /\ Direct
    /\ LET d == init_player(Run(mao_core), nb_card, Answers(mao_core))
       IN /\ mao_core' = d.x.mao
          /\ c_status' = d.x.status
          /\ c_trace' = d.x.trace
          /\ c_out' = d.cards
    /\ c_before' = mao_core
    /\ c_op' = CoreOp("init_player", 0, nb_card, <<>>, "")
    /\ c_wrong' = <<>>
    /\ c_steps' = c_steps + 1
    /\ UNCHANGED a_vars

\* init_players called on the game under way for n pseudos: the players are
\* replaced, the cards they held are gone
InitPlayers(n, nb_card) ==
    /\ Direct
    /\ Ran([name |-> "init_players", pseudos |-> n, nb_card |-> nb_card],
           Returning(init_players(Run(mao_core), n, nb_card, Answers(mao_core)), <<>>))
    /\ UNCHANGED a_vars

InitAllPlayers(nb_card) ==
    /\ Direct
    /\ Ran(CoreOp("init_all_players", 0, nb_card, <<>>, ""),
           Returning(init_all_players(Run(mao_core), nb_card, Answers(mao_core)), <<>>))
    /\ UNCHANGED a_vars

\* generate_common_draw hands the new deck back as `draw`
InitNewGame(nb_card, draw) ==
    /\ Direct
    /\ Ran(CoreOp("init_new_game", 0, nb_card, <<>>, ""),
           Returning(init_new_game(Run(mao_core), nb_card, draw, Answers(mao_core)),
                     <<>>))
    /\ automaton' = reset(automaton)
    /\ a_result' = NoResult
    /\ a_op' = Op("reset", 0)
    /\ a_hist' = [a_hist EXCEPT !.pristine = FALSE, !.fed = <<>>,
                                !.attempt = <<>>, !.matches = 0, !.roundtrip = FALSE]
    /\ UNCHANGED a_panicked

NewPlayedStack(cards) ==
    /\ Direct
    /\ Ran(CoreOp("new_played_stack", 0, 0, <<>>, ""),
           Returning(new_played_stack(Run(mao_core), cards), <<>>))
    /\ UNCHANGED a_vars

PushCardIntoStackTarget(target_index, card) ==
    /\ Direct
    /\ Ran([name |-> "push_card_into_stack_target", target_index |-> target_index,
            card |-> card],
           Returning(push_card_into_stack_target(Run(mao_core), target_index, card),
                     <<>>))
    /\ UNCHANGED a_vars

RemoveCardFromStackTarget(target_index, card_index) ==
    /\ Direct
    /\ LET d == remove_card_from_stack_target(Run(mao_core), target_index, card_index)
       IN /\ mao_core' = d.x.mao
          /\ c_status' = d.x.status
          /\ c_trace' = d.x.trace
          /\ c_out' = d.cards
    /\ c_before' = mao_core
    /\ c_op' = [name |-> "remove_card_from_stack_target",
                target_index |-> target_index, card_index |-> card_index]
    /\ c_wrong' = <<>>
    /\ c_steps' = c_steps + 1
    /\ UNCHANGED a_vars

RefillDrawableStacks(stack_index, check_rules) ==
    /\ Direct
    /\ Ran([name |-> "refill_drawable_stacks", stack_index |-> stack_index,
            check_rules |-> check_rules],
           Returning(refill_drawable_stacks(Run(mao_core), stack_index, check_rules,
                                            Answers(mao_core)), <<>>))
    /\ UNCHANGED a_vars

CommonPenalityToPlayer(player_index) ==
    /\ Direct
    /\ Ran(CoreOp("common_penality_to_player", player_index, 0, <<>>, ""),
           Returning(common_penality_to_player(Run(mao_core), player_index,
                                               Answers(mao_core)), <<>>))
    /\ UNCHANGED a_vars

NextPlayer(player_index, event, took_penality) ==
    /\ Direct
    /\ Ran([name |-> "next_player", player_index |-> player_index, event |-> event,
            took_penality |-> took_penality],
           Returning(next_player(Run(mao_core), player_index, event, took_penality),
                     <<>>))
    /\ UNCHANGED a_vars

\* on_event called by a front-end or a rule module on this engine
DirectOnEvent(event) ==
    /\ Direct
    /\ Ran([name |-> "on_event", event |-> event],
           Returning(on_event(Run(mao_core), event, Answers(mao_core)).x, <<>>))
    /\ UNCHANGED a_vars

PropagateOnEventResultsAndExecute(player_index, previous_event, event_results) ==
    /\ Direct
    /\ Ran([name |-> "propagate_on_event_results_and_execute",
            player_index |-> player_index, previous_event |-> previous_event,
            event_results |-> event_results],
           propagate_on_event_results_and_execute(Run(mao_core), player_index,
                                                  previous_event, event_results))
    /\ UNCHANGED a_vars

\* activate_rule called on this engine, the module turning out to be `module`
DirectActivateRule(rule_name, module) ==
    /\ Direct
    /\ IndexNamed(rule_name) < Len(mao_core.available_rules)
          => mao_core.available_rules[IndexNamed(rule_name) + 1] \in {NotCalled, module}
    /\ Ran(CoreOp("activate_rule", IndexNamed(rule_name), 0, <<>>, rule_name),
           Returning(activate_rule(Run(Loaded(mao_core, IndexNamed(rule_name), module)),
                                   rule_name), <<>>))
    /\ UNCHANGED a_vars

\* update_turn called on this engine; `self.turn * step` out of isize
\* panics in the build with overflow checks and wraps in the build without
DirectUpdateTurn(changes) ==
    /\ Direct
    /\ \/ /\ mao_core' = update_turn(mao_core, changes)
          /\ c_status' = IF update_turn_divides_by_zero(mao_core, changes)
                         THEN "panic:rem_by_zero" ELSE "Ok"
       \/ /\ update_turn_overflows(mao_core, changes)
          /\ mao_core' = update_turn_panicking(mao_core, changes)
          /\ c_status' = "panic:overflow"
    /\ c_before' = mao_core
    /\ c_op' = [name |-> "update_turn", changes |-> changes]
    /\ c_wrong' = <<>>
    /\ c_trace' = <<>>
    /\ c_steps' = c_steps + 1
    /\ c_out' = <<>>
    /\ UNCHANGED a_vars

\* what the direct calls are given; the card handed over is not one of the
\* deck
OtherCard == Card_new(8, "Heart")
DirectInteractions == {MaoInteraction_new(0, 1), MaoInteraction_new(0, 4)}
DirectStackTypes == {{"Drawable"}, {"Playable"}}
DirectEvents ==
    {PlayedCardEvent(1, common_cards[1]),
     GiveCardEvent(OtherCard, 0, StackTarget("Stack", 0))}
NextPlayerEvents == {PlayedCardEvent(1, common_cards[1]), VerifyEvent}
\* a player, a stack, and a stack that is not there: to push a card the
\* stack MaxStacks, to take the first card of a stack the stack 1
PushTargets ==
    {StackTarget("Player", 0), StackTarget("Stack", 1), StackTarget("Stack", MaxStacks)}
RemoveTargets == {StackTarget("Player", 0), StackTarget("Stack", 1)}
DirectModules == {Answering(ActionKinds, Ignored)}
DirectVerdicts ==
    {<<MaoEventResult_new("Disallow", TRUE, "None")>>,
     <<MaoEventResult_new("ExecuteBeforeTurnChange", FALSE, "ExecuteAfterTurnChange")>>,
     <<Failing(MaoEventResult_new("ExecuteBeforeTurnChange", FALSE, "None"), {"before"}),
       MaoEventResult_new("ExecuteAfterTurnChange", FALSE, "None")>>,
     <<Failing(MaoEventResult_new("Disallow", FALSE, "ExecuteBeforeTurnChange"),
               {"callback"}),
       MaoEventResult_new("OverrideBasicRule", FALSE, "ExecuteAfterTurnChange")>>}
DirectTurnChanges ==
    {PlayerTurnChange_new(FALSE, FALSE, 1), PlayerTurnChange_new(TRUE, TRUE, 0),
     PlayerTurnChange_new(TRUE, FALSE, IsizeMin)}

NextCore ==
    \/ \E player_index \in PlayerIndexes, message \in Messages :
          OnSayAction(player_index, message)
    \/ \E player_index \in PlayerIndexes, card_index \in CardIndexes,
          stack_index \in StackIndexes :
          PlayInteraction(player_index, card_index, stack_index)
    \/ \E player_index \in PlayerIndexes, stack_index \in StackIndexes :
          DrawInteraction(player_index, stack_index)
    \/ \E player_index \in PlayerIndexes, physical_name \in PhysicalNames :
          OnActionInteraction(player_index, physical_name)
    \/ \E index \in 0..(NumRules - 1), module \in RuleBehaviours :
          ActivateRuleByIndex(index, module)
    \/ \E index \in 0..(NumRules - 1) : DeactivateRuleByIndex(index)
    \/ \E nb \in 0..MaxDraw : DrawMultipleCardsUnchosen(nb)
    \/ \E interaction \in DirectInteractions : CoreOnAction(interaction)
    \/ \E name \in {"reset", "cancel_last"} : AutomatonMut(name)
    \/ \E player_index \in {0} : PlayersMut(player_index)
    \/ \E write \in StackWrites : StacksMut(write)
    \/ \E stack_types \in DirectStackTypes : GetSpecificStacksMut(stack_types)
    \/ \E nb_card \in {NbCards} : InitPlayer(nb_card)
    \/ \E n \in {0, NumPlayers + 1}, nb_card \in {0, NbCards} : InitPlayers(n, nb_card)
    \/ \E nb_card \in {NbCards} : InitAllPlayers(nb_card)
    \/ \E nb_card \in {NbCards}, draw \in generate_common_draw : InitNewGame(nb_card, draw)
    \/ \E cards \in {<<OtherCard>>} : NewPlayedStack(cards)
    \/ \E target_index \in PushTargets :
          PushCardIntoStackTarget(target_index, OtherCard)
    \/ \E target_index \in RemoveTargets : RemoveCardFromStackTarget(target_index, 0)
    \/ \E check_rules \in BOOLEAN : RefillDrawableStacks(<<>>, check_rules)
    \/ \E player_index \in {0, NumPlayers} : CommonPenalityToPlayer(player_index)
    \/ \E event \in NextPlayerEvents, took_penality \in BOOLEAN :
          NextPlayer(1, event, took_penality)
    \/ \E event \in DirectEvents : DirectOnEvent(event)
    \/ \E event_results \in DirectVerdicts :
          PropagateOnEventResultsAndExecute(1, PlayedCardEvent(1, common_cards[1]),
                                            event_results)
    \/ \E module \in DirectModules : DirectActivateRule("a", module)
    \/ \E changes \in DirectTurnChanges : DirectUpdateTurn(changes)

SpecCore == InitCore /\ [][NextCore]_vars

\* ------------------------------------------------------------------------
\* SpecRules: one MaoCore with NumModules rule modules, which may declare
\* action paths and give back cross-rule callbacks; the modules are
\* activated and deactivated, and the players say and play
\* ------------------------------------------------------------------------
\* what a module answers to the players' actions
ModuleVerdicts ==
    {MaoEventResult_new(t, FALSE, "None") :
        t \in {"Ignored", "Disallow", "OverrideBasicRule", "ExecuteBeforeTurnChange",
               "ExecuteAfterTurnChange"}}
    \cup {MaoEventResult_new("ExecuteAfterTurnChange", FALSE, "ExecuteBeforeTurnChange"),
          MaoEventResult_new("OverrideBasicRule", FALSE, "Disallow"),
          MaoEventResult_new("Disallow", FALSE, "ForgetSomething")}
    \cup {Failing(MaoEventResult_new("ExecuteBeforeTurnChange", FALSE, "None"), {"before"}),
          Failing(MaoEventResult_new("OverrideBasicRule", FALSE, "ExecuteAfterTurnChange"),
                  {"callback"})}

\* the action paths a module declares: none, or "select a card, then a rule"
\* under the module's name
DeclaredActions == {<<>>, <<Path(<<1, 6>>, 1)>>}

\* the modules: one for each verdict, declaring no path, and those that
\* declare paths, which ignore what the players do
RuleModules ==
    {Declaring(ActionKinds, v, <<>>) : v \in ModuleVerdicts \cup {HandlerErr}}
    \cup {Declaring(ActionKinds, Ignored, acts) : acts \in DeclaredActions}

\* the modules activate_rule is given when it is the first to meet them:
\* those that declare no action path (it does not read the paths)
NamedModules == {module \in RuleModules : get_actions(module) = <<>>}

InitRules ==
    \E draw \in generate_common_draw :
        LET m == from_config([i \in 1..NumModules |-> NotCalled], draw)
            x == init_players(Run(m), NumPlayers, NbCards, Answers(m))
        IN /\ Ok(x)
           /\ mao_core = x.mao
           /\ c_before = m
           /\ c_op = CoreOp("init_players", 0, 0, <<>>, "")
           /\ c_status = x.status
           /\ c_wrong = <<>>
           /\ c_trace = x.trace
           /\ c_steps = 0
           /\ c_out = <<>>
           /\ AutomatonIdle

\* the occurrences a front-end or a rule module hands to on_event
Events ==
    {PlayedCardEvent(p, common_cards[1]) : p \in PlayerIndexes}
    \cup {DrawedCardEvent(p, common_cards[1]) : p \in PlayerIndexes}
    \cup {SayEvent(p, "x") : p \in PlayerIndexes}
    \cup {DiscardCardEvent(0, common_cards[1]), PhysicalEvent(0, "knock"),
          PlayerPenality(0),
          GiveCardEvent(common_cards[1], 0, StackTarget("Stack", 0)),
          StackPropertyRunsOut(0), EndPlayerTurn(<<>>), GameStart, VerifyEvent}

OnEvent(event) ==
    /\ Running
    /\ Ran([name |-> "on_event", event |-> event],
           Returning(on_event(Run(mao_core), event, Answers(mao_core)).x, <<>>))
    /\ UNCHANGED a_vars

\* the indexes given: those of the modules, and the first that is not one
NextRules ==
    \/ \E event \in Events : OnEvent(event)
    \/ \E index \in 0..NumModules, module \in RuleModules :
          ActivateRuleByIndex(index, module)
    \/ \E index \in 0..NumModules : DeactivateRuleByIndex(index)
    \/ \E rule_name \in RuleNames, module \in NamedModules :
          ActivateRule(rule_name, module)
    \/ \E player_index \in PlayerIndexes, message \in Messages :
          OnSayAction(player_index, message)
    \/ \E player_index \in PlayerIndexes, card_index \in CardIndexes,
          stack_index \in {<<>>, <<MaxStackIndex>>} :
          PlayInteraction(player_index, card_index, stack_index)

SpecRules == InitRules /\ [][NextRules]_vars

\* ------------------------------------------------------------------------
\* SpecTurn: update_turn applied again and again to a MaoCore built by
\* MaoCore::new for 0..MaxTurnPlayers players and no stack, and
\* get_card_effects applied to a card under a configuration of card effects
\* ------------------------------------------------------------------------
\* PlayerTurnChange: Update / Rotate of Set(i) / Update(k)
PlayerTurnChanges ==
    {PlayerTurnChange_new(r, TRUE, i) : r \in BOOLEAN, i \in 0..MaxSet}
    \cup {PlayerTurnChange_new(r, FALSE, k) : r \in BOOLEAN, k \in IsizeMin..IsizeMax}

Cards == Range(common_cards)

\* the keys of a configuration: a value, a type, or both
EffectKeys ==
    {CardEffectsKey_new(sg, v) : sg \in {""} \cup {Signs[i] : i \in 1..NumSigns},
                                v \in 0..NumValues}
        \ {CardEffectsKey_new("", 0)}

\* SingOrMult (config.rs:200): one effect, or several
EffectLists ==
    {<<Say(<<"w">>)>>, <<Physical("knock"), TurnChange(PlayerTurnChange_default)>>}

\* a place for each key, to list the entries of a map in one order only
KeyRank(key) ==
    key.value * (NumSigns + 1)
        + (IF key.c_type = "" THEN 0 ELSE CHOOSE i \in 1..NumSigns : Signs[i] = key.c_type)

\* Config::cards_effects (a HashMap): entries with keys that differ
Configs ==
    {config \in SeqsOf([key : EffectKeys, effects : EffectLists], 0, MaxEffectKeys) :
        \A i, j \in 1..Len(config) :
            i < j => KeyRank(config[i].key) < KeyRank(config[j].key)}

InitTurn ==
    \E n \in 0..MaxTurnPlayers :
        LET m == MaoCore_new(<<>>, <<>>, [i \in 1..n |-> <<>>])
        IN /\ mao_core = m
           /\ c_before = m
           /\ c_op = [name |-> "new"]
           /\ c_status = "Ok"
           /\ c_wrong = <<>>
           /\ c_trace = <<>>
           /\ c_steps = 0
           /\ c_out = <<>>
           /\ AutomatonIdle

\* `self.turn * step` out of isize: the build with overflow checks panics,
\* the build without them wraps; the remainder by no player panics in both
UpdateTurn(changes) ==
    /\ Running
    /\ \/ /\ mao_core' = update_turn(mao_core, changes)
          /\ c_status' = IF update_turn_divides_by_zero(mao_core, changes)
                         THEN "panic:rem_by_zero" ELSE c_status
       \/ /\ update_turn_overflows(mao_core, changes)
          /\ mao_core' = update_turn_panicking(mao_core, changes)
          /\ c_status' = "panic:overflow"
    /\ c_before' = mao_core
    /\ c_op' = [name |-> "update_turn", changes |-> changes]
    /\ c_out' = <<>>
    /\ UNCHANGED <<c_wrong, c_trace, c_steps>>
    /\ UNCHANGED a_vars

GetCardEffects(config, card) ==
    /\ Running
    /\ c_op' = [name |-> "get_card_effects", config |-> config, card |-> card]
    /\ c_out' = get_card_effects_in(config, card)
    /\ c_before' = mao_core
    /\ UNCHANGED <<mao_core, c_status, c_wrong, c_trace, c_steps>>
    /\ UNCHANGED a_vars

NextTurn ==
    \/ \E changes \in PlayerTurnChanges : UpdateTurn(changes)
    \/ \E config \in Configs, card \in Cards : GetCardEffects(config, card)

SpecTurn == InitTurn /\ [][NextTurn]_vars

\* ------------------------------------------------------------------------
\* Properties of SpecAutomaton
\* ------------------------------------------------------------------------
IsPrefix(s, t) == Len(s) <= Len(t) /\ SubSeq(t, 1, Len(s)) = s

\* no two paths of the list are the same path
PairwiseDistinct(paths) ==
    \A i, j \in 1..Len(paths) : i # j => paths[i] # paths[j]

\* no path's tokens are the beginning (or the whole) of another path's tokens
PrefixFree(paths) ==
    \A i, j \in 1..Len(paths) :
        i # j => ~IsPrefix(PathTokens(paths[i]), PathTokens(paths[j]))

\* the last on_action was given the step that completes, or continues, the
\* replay of an inserted path from the root: completing it returns Leaf with
\* the steps given, continuing it returns AdvancedNextState
ReplayOutcome ==
    \A i \in 1..Len(a_hist.inserted) :
        LET toks == PathTokens(a_hist.inserted[i])
            given == StepTokens(a_hist.attempt)
        IN /\ given = toks =>
                /\ a_result.kind = "Leaf"
                /\ a_result.interactions = a_hist.attempt
           /\ (IsPrefix(given, toks) /\ Len(given) < Len(toks)) =>
                a_result.kind = "AdvancedNextState"

\* C1, as amended: in an automaton that only from_iter / extend have filled with
\* paths none of whose token sequences begins another's, replaying the tokens
\* of an inserted path from the root returns AdvancedNextState for every
\* non-final token and Leaf for the final one, and the Leaf carries the steps
\* given, token and payload, in order.
C1_ReplayPrefixFree ==
    (a_op.name = "on_action" /\ a_hist.fresh /\ PrefixFree(a_hist.inserted))
        => ReplayOutcome

\* C1 witness: a two-step path was replayed to its Leaf, a payload given on
\* the first step, in an automaton holding two prefix-free paths
C1_Witness ==
    /\ a_op.name = "on_action" /\ a_hist.fresh
    /\ Len(a_hist.inserted) = 2 /\ PrefixFree(a_hist.inserted)
    /\ a_result.kind = "Leaf"
    /\ Len(a_result.interactions) = 2
    /\ a_result.interactions[1].data = 1

\* C1 as stated: the same for any list of distinct paths
C1_ReplayDistinct ==
    (a_op.name = "on_action" /\ a_hist.fresh /\ PairwiseDistinct(a_hist.inserted))
        => ReplayOutcome

\* C2: the automaton from_iter built from a list of paths equals the one it
\* builds from any other ordering of the list.
C2_OrderIndependent ==
    a_op.name = "from_iter" =>
        \A other \in Orderings(a_hist.inserted) :
            Automaton_eq(automaton, from_iter(other).a)

\* C3: remove_paths(P) after extend(P), whatever traversal ran in between,
\* leaves an automaton equal to the one before the extend.
C3_ExtendRemoveRoundTrip ==
    a_hist.roundtrip => Automaton_eq(automaton, a_hist.ext_before)

\* C7: the cursor is on a live node whose ancestors lead to the root, the root
\* is live, and after reset the cursor is on the root.
C7_CursorLive ==
    LET anc == ancestors(automaton, automaton.current_state)
    IN /\ ~automaton.arena[automaton.current_state].removed
       /\ anc[Len(anc)] = automaton.root
       /\ \A i \in 1..Len(anc) : ~automaton.arena[anc[i]].removed
       /\ a_op.name = "reset" => automaton.current_state = automaton.root

\* C8: in a candidate list returned by on_action no branch comes before a leaf.
C8_BranchesAfterLeaves ==
    (a_op.name = "on_action" /\ a_result.kind = "Nodes") =>
        \A i, j \in 1..Len(a_result.nodes) :
            (a_result.nodes[i].func = "None" /\ a_result.nodes[j].func # "None")
                => j < i

\* C8 witness: on_action returned candidates of which search_type found the
\* branch first
C8_Witness ==
    /\ a_op.name = "on_action" /\ a_result.kind = "Nodes"
    /\ LET token == a_hist.attempt[Len(a_hist.attempt)].action
           found == nodes_from_ids(automaton, search_type(automaton, token))
       IN /\ found[1].func = "None"
          /\ \E i \in 2..Len(found) : found[i].func # "None"

\* C9: on_action_indexed with two or more candidates and an index not below
\* their number returns the invalid-index error.
C9_InvalidIndex ==
    (a_op.name = "on_action_indexed" /\ a_hist.matches > 1
        /\ a_op.index >= a_hist.matches)
        => a_result.kind = "Err:InvalidIndex"

\* C9 witness: index 2 was given with exactly 2 candidates and was rejected
C9_Witness ==
    /\ a_op.name = "on_action_indexed"
    /\ a_hist.matches = 2 /\ a_op.index = 2
    /\ a_result.kind = "Err:InvalidIndex"

\* ------------------------------------------------------------------------
\* Properties of SpecCore
\* ------------------------------------------------------------------------
\* how many entries of a list satisfy Test
Count(list, Test(_)) == Cardinality({i \in 1..Len(list) : Test(list[i])})

PlayerOps ==
    {"on_say_action", "play_interaction", "draw_interaction", "on_action_interaction"}

\* the default turn-advance was reached after the deferred verdicts of trace
\* entry k were sorted out: only "before" hooks lie between the two
NextPlayerRanAfter(k) ==
    \E j \in (k + 1)..Len(c_trace) :
        /\ c_trace[j].call = "next_player" /\ c_trace[j].site = 1566
        /\ \A i \in (k + 1)..(j - 1) : c_trace[i].call = "before"

\* the operation ended with the Err of a Before hook called after the
\* deferred verdicts of trace entry k were sorted out: the turn-advance was
\* not reached
BeforeHookFailedAfter(k) ==
    /\ c_status = "Err:Hook"
    /\ k < Len(c_trace)
    /\ \A i \in (k + 1)..Len(c_trace) : c_trace[i].call = "before"

\* C4: whenever propagate_on_event_results_and_execute has verdicts that are
\* not all Ignored, it runs next_player if and only if none of the deferred
\* verdicts (first-pass or added by a callback) is OverrideBasicRule; a
\* Before hook that fails ends the operation before that.
C4_TurnAdvanceIffNoOverride ==
    \A k \in 1..Len(c_trace) :
        (c_trace[k].call = "deferred" /\ ~BeforeHookFailedAfter(k)) =>
            (NextPlayerRanAfter(k)
                <=> \A i \in 1..Len(c_trace[k].info) :
                        c_trace[k].info[i] # "OverrideBasicRule")

\* the Disallow / ForgetSomething verdicts the modules gave, in the last
\* operation, to a play, a draw, a say, a physical action or an end of turn
ViolationsRaised ==
    Cardinality(
        {<<n, i>> \in (1..Len(c_trace)) \X (2..(NumRules + 1)) :
            /\ c_trace[n].call = "on_event"
            /\ c_trace[n].info[1] \in {"PlayedCardEvent", "DrawedCardEvent", "SayEvent",
                                        "PhysicalEvent", "EndPlayerTurn"}
            /\ i <= Len(c_trace[n].info)
            /\ c_trace[n].info[i] \in {"Disallow", "ForgetSomething"}})

\* the lines where the penalty of a module's verdict is applied: the hook,
\* then the default penalty (on_penality)
HookSites == {276, 318, 553, 563, 706, 713}
DefaultSites == {278, 320, 555, 565, 708, 715}

\* the penalties applied in the last operation for modules' verdicts
PenaltiesApplied ==
    Count(c_trace, LAMBDA entry :
            \/ entry.call = "penality" /\ entry.site \in HookSites
            \/ entry.call = "on_penality" /\ entry.site \in DefaultSites)

\* C5: an operation of a player applies one penalty for each Disallow or
\* ForgetSomething verdict the modules gave in it, and hands back no
\* violation of a module that was not penalized.
C5_OnePenaltyPerViolation ==
    c_op.name \in PlayerOps => ViolationsRaised = PenaltiesApplied

\* C6: no operation of a player ends with the hard error of on_say_action /
\* on_action_interaction for a ForgotSomething, nor aborts in next_player,
\* both of which only a module's verdict can bring about.
C6_NoHardErrorFromVerdict ==
    c_op.name \in PlayerOps => c_status \notin {"Err:OnMaoInteraction", "panic:todo"}

\* the last operation was a play by the player whose turn it was, every
\* activated module answering Ignored to every occurrence, onto a played
\* stack whose top card differs from the card in value and in color, a card
\* being left to draw
RefusedPlayCase ==
    /\ c_op.name = "play_interaction"
    /\ c_op.player_index = c_before.player_turn
    /\ c_op.card_index < Len(c_before.players[c_op.player_index + 1])
    /\ c_op.stack_index # <<>>
    /\ c_before.stacks[c_op.stack_index[1] + 1].stack_type = "Playable"
    /\ get_none_empty_drawable_stack(c_before) # <<>>
    /\ c_before.stacks[c_op.stack_index[1] + 1].cards # <<>>
    /\ \A i \in 1..Len(c_before.activated_rules) :
           c_before.available_rules[c_before.activated_rules[i] + 1].result = Ignored
    /\ LET card == c_before.players[c_op.player_index + 1][c_op.card_index + 1]
           cards == c_before.stacks[c_op.stack_index[1] + 1].cards
           top_card == cards[Len(cards)]
       IN card.value # top_card.value /\ get_color(card) # get_color(top_card)

\* C10: such a play is refused with CannotPlaceThisCard, the card stays in
\* the hand, the stack is as it was, and the player gets the default penalty
\* exactly once.
C10_RefusedPlay ==
    RefusedPlayCase =>
        LET p == c_op.player_index + 1
            s == c_op.stack_index[1] + 1
        IN /\ c_status = "Ok"
           /\ c_wrong # <<>>
           /\ c_wrong[Len(c_wrong)] =
                  WrongPlayerInteraction_new("Disallow", "Basic Rules",
                                             "CannotPlaceThisCard", FALSE)
           /\ SubSeq(mao_core.players[p], 1, Len(c_before.players[p]))
                  = c_before.players[p]
           /\ Len(mao_core.players[p]) = Len(c_before.players[p]) + 1
           /\ mao_core.stacks[s] = c_before.stacks[s]
           /\ Count(c_trace, LAMBDA entry : entry.call = "common_penality"
                                            /\ entry.player_index = c_op.player_index) = 1

\* ------------------------------------------------------------------------
\* The words a card asks for, and who said them
\* ------------------------------------------------------------------------
\* `card` has an effect that asks its player to say `word`
AsksToSay(card, word) ==
    \E e \in 1..Len(get_card_effects(card)) :
        /\ get_card_effects(card)[e].effect = "Say"
        /\ word \in Range(get_card_effects(card)[e].words)

\* in `events`, `player_index` said `word`
SaidIn(events, player_index, word) ==
    \E j \in 1..Len(events) :
        /\ events[j].kind = "SayEvent"
        /\ events[j].player_index = player_index
        /\ contains(events[j].message, word)

\* the ForgotSomething violations the check of trace entry k puts on a player
ForgotFor(k, player_index) ==
    IF c_trace[k].player_index = player_index THEN Len(c_trace[k].info[2]) ELSE 0

\* C11: whenever on_turn_ends checks a played card that asks its player to
\* say "w", the check finds no ForgotSomething for that player if the player
\* said "w" in the turn, and exactly one if the player did not.
C11_SayThenPlay ==
    \A k \in 1..Len(c_trace) :
        c_trace[k].call = "basic_check" =>
            \A i \in 1..Len(c_trace[k].info[1]) :
                LET event == c_trace[k].info[1][i]
                IN (event.kind = "PlayedCardEvent" /\ AsksToSay(event.card[1], "w")) =>
                       ForgotFor(k, event.player_index) =
                           IF SaidIn(c_trace[k].info[1], event.player_index, "w")
                           THEN 0 ELSE 1

\* ------------------------------------------------------------------------
\* Properties of SpecRules
\* ------------------------------------------------------------------------
\* the entries k - n .. k - 1 of the trace are the calls of the handlers of
\* `rules`, in that order
HandlersBefore(k, rules) ==
    /\ k > Len(rules)
    /\ \A i \in 1..Len(rules) :
          /\ c_trace[k - Len(rules) - 1 + i].call = "get_on_event_func"
          /\ c_trace[k - Len(rules) - 1 + i].info[1] = rules[i]

\* how many of the n handler calls before trace entry k are calls of the
\* handler of `module`
HandlerCalls(k, n, module) ==
    Cardinality({i \in 1..n : /\ k - i >= 1
                              /\ c_trace[k - i].call = "get_on_event_func"
                              /\ c_trace[k - i].info[1] = module})

\* C12: activated_rules lists the activated modules in the order of their
\* activation; for every occurrence it hands verdicts back for, on_event
\* has called the handler of each activated module exactly once, in that
\* order, and hands back one verdict per module in that order; a cross-rule
\* callback only runs after on_event has returned.
C12_HandlersOncePerModule ==
    /\ (c_op.name = "activate_rule_by_index" /\ c_status = "Ok") =>
           mao_core.activated_rules = Append(c_before.activated_rules, c_op.player_index)
    /\ (c_op.name = "deactivate_rule_by_index" /\ c_status = "Ok") =>
           mao_core.activated_rules =
               SelectSeq(c_before.activated_rules, LAMBDA id : id # c_op.player_index)
    /\ c_op.name \in PlayerOps =>
           LET rules == c_before.activated_rules
               modules == Range(rules)
           IN /\ mao_core.activated_rules = rules
              /\ \A k \in 1..Len(c_trace) :
                    /\ (/\ c_trace[k].call = "on_event"
                        /\ "Err" \notin Range(c_trace[k].info)) =>
                          /\ HandlersBefore(k, rules)
                          /\ \A module \in modules :
                                 HandlerCalls(k, Len(rules), module) = 1
                          /\ Len(c_trace[k].info) = 1 + Cardinality(modules)
                          /\ Tail(c_trace[k].info) =
                                 [i \in 1..Len(rules) |->
                                     Answers(c_before)[rules[i]][c_trace[k].info[1]].res_type]
                    /\ c_trace[k].call = "other_rules_callback" =>
                          /\ k > 1
                          /\ c_trace[k - 1].call \in {"on_event", "other_rules_callback"}

\* the places of the deferred verdicts of a type at trace entry k ("deferred")
HooksOf(k, res_type) ==
    SelectSeq([i \in 1..Len(c_trace[k].info) |-> i],
              LAMBDA i : c_trace[k].info[i] = res_type)

\* the calls owed once the deferred verdicts of trace entry k are sorted
\* out, <<call, place of the verdict>> each: the Before hooks, the default
\* turn-advance when no deferred verdict is OverrideBasicRule, the After hooks
OwedAfter(k) ==
    LET before == HooksOf(k, "ExecuteBeforeTurnChange")
        after == HooksOf(k, "ExecuteAfterTurnChange")
    IN [i \in 1..Len(before) |-> <<"before", before[i]>>]
       \o (IF HooksOf(k, "OverrideBasicRule") = <<>> THEN <<<<"next_player", 0>>>>
           ELSE <<>>)
       \o [i \in 1..Len(after) |-> <<"after", after[i]>>]

C20_ActivateDeactivateRoundTrip ==
    (/\ c_op.name = "deactivate_rule_by_index"
     /\ c_status = "Ok"
     /\ a_op = Op("activate_rule_by_index", c_op.player_index)
     /\ a_hist.ext_open)
        => Automaton_eq(automaton, a_hist.ext_before)

\* ------------------------------------------------------------------------
\* Properties of SpecTurn
\* ------------------------------------------------------------------------
\* the effects a configuration holds under a key
EffectsUnder(config, key) ==
    UNION {Range(config[i].effects) : i \in {j \in 1..Len(config) : config[j].key = key}}

\* C14: get_card_effects hands back exactly the effects configured under the
\* card's value alone, under its type alone and under the pair (type, value).
C14_UnionOfThreeLookups ==
    c_op.name = "get_card_effects" =>
        Range(c_out) =
            EffectsUnder(c_op.config, CardEffectsKey_new("", c_op.card.value))
            \cup EffectsUnder(c_op.config, CardEffectsKey_new(c_op.card.sign, 0))
            \cup EffectsUnder(c_op.config,
                              CardEffectsKey_new(c_op.card.sign, c_op.card.value))

\* the value key and the type key of the card hold different effects, and
\* both are handed back
C14_Witness ==
    /\ c_op.name = "get_card_effects"
    /\ EffectsUnder(c_op.config, CardEffectsKey_new("", c_op.card.value))
           = {Say(<<"w">>)}
    /\ Physical("knock")
           \in EffectsUnder(c_op.config, CardEffectsKey_new(c_op.card.sign, 0))
    /\ {Say(<<"w">>), Physical("knock")} \subseteq Range(c_out)

\* C15: update_turn(Update(Update(0))) changes neither the current player
\* index nor the direction, whatever the index was.
C15_StepZeroIdentity ==
    (c_op.name = "update_turn" /\ c_op.changes = PlayerTurnChange_new(FALSE, FALSE, 0)) =>
        /\ mao_core.player_turn = c_before.player_turn
        /\ mao_core.turn = c_before.turn

\* C16: update_turn negates the direction for a Rotate, of Set(i) as of
\* Update(k), and leaves it alone for an Update; the direction is 1 or -1.
C16_RotateFlipsOnce ==
    /\ mao_core.turn \in {1, -1}
    /\ c_op.name = "update_turn" =>
          mao_core.turn = IF c_op.changes.rotate THEN 0 - c_before.turn
                          ELSE c_before.turn

\* a Rotate(Set(i)) turned the direction to -1
C16_Witness ==
    /\ c_op.name = "update_turn"
    /\ c_op.changes.rotate /\ c_op.changes.set
    /\ c_before.turn = 1 /\ mao_core.turn = -1

\* the remainder of a by n > 0 that is never negative
EuclidRem(a, n) ==
    CHOOSE r \in 0..(n - 1) : \E q \in (0 - 2 ^ IsizeBits)..(2 ^ IsizeBits) :
        a = q * n + r

\* C17: from an index in range, update_turn of Update(k), under Update or
\* Rotate, sets the index to the Euclidean remainder of index + direction * k
\* by the number of players, for every k of isize, the direction being the
\* one after the flip.
C17_EuclideanStep ==
    (/\ c_op.name = "update_turn"
     /\ ~c_op.changes.set
     /\ c_before.player_turn < Len(c_before.players)) =>
        mao_core.player_turn =
            EuclidRem(c_before.player_turn
                          + (IF c_op.changes.rotate THEN 0 - c_before.turn
                             ELSE c_before.turn) * c_op.changes.n,
                      Len(c_before.players))

\* a Rotate(Update(k)) took the index below zero before the remainder
C17_Witness ==
    /\ c_op.name = "update_turn"
    /\ ~c_op.changes.set /\ c_op.changes.rotate
    /\ c_before.player_turn < Len(c_before.players)
    /\ c_before.player_turn + (0 - c_before.turn) * c_op.changes.n < 0
    /\ mao_core.player_turn \in 0..(Len(c_before.players) - 1)

\* ------------------------------------------------------------------------
\* Properties of SpecInsert
\* ------------------------------------------------------------------------
\* the live nodes of the arena
LiveNodes(a) == {id \in 1..Len(a.arena) : ~a.arena[id].removed}

\* the live children of `id` that are leaves / branches
LeafChildren(a, id) == Range(get_leaves(a, id))
BranchChildren(a, id) == Range(children_of(a, id)) \ LeafChildren(a, id)

\* the live leaves of the whole arena
AllLeaves(a) == {id \in LiveNodes(a) : a.arena[id].data.func # "None"}

\* C18: no node has two live leaf children with equal (token, owning rule),
\* no node has two live branch children with the same token, and an
\* insertion that panics has added no leaf.
C18_NoTwinChildren ==
    /\ \A id \in LiveNodes(automaton) :
          /\ \A x, y \in LeafChildren(automaton, id) :
                (/\ automaton.arena[x].data.action.action
                        = automaton.arena[y].data.action.action
                 /\ automaton.arena[x].data.rule = automaton.arena[y].data.rule)
                    => x = y
          /\ \A x, y \in BranchChildren(automaton, id) :
                automaton.arena[x].data.action.action
                    = automaton.arena[y].data.action.action => x = y
    /\ (a_op.name = "extend" /\ a_panicked) =>
          AllLeaves(automaton) = AllLeaves(a_hist.ext_before)

\* ------------------------------------------------------------------------
\* cancel_last (SpecAutomaton)
\* ------------------------------------------------------------------------
\* the step is a call of cancel_last that moves the cursor to its parent and
\* hands back the node it left, the tree being left alone
CancelMoves ==
    /\ automaton'.current_state = automaton.arena[automaton.current_state].parent
    /\ automaton' = [automaton EXCEPT !.current_state = automaton'.current_state]
    /\ a_result'.kind = "Some"
    /\ a_result'.nodes = <<automaton.arena[automaton.current_state].data>>

\* the step is a call of cancel_last that changes nothing and hands back None
CancelIdles ==
    /\ automaton' = automaton
    /\ a_result'.kind = "None"
    /\ a_result'.nodes = <<>>

\* C19 (amended): cancel_last moves the cursor to its immediate parent and
\* returns the node it left whenever the cursor has a parent, the root
\* included; it is a no-op returning nothing only when the cursor has none
\* (it is the root itself, or a node that was removed from the tree).
C19_CancelLastToParent ==
    [][a_op'.name = "cancel_last" =>
          IF automaton.arena[automaton.current_state].parent # 0
          THEN CancelMoves ELSE CancelIdles]_vars

\* cancel_last took the cursor from a child of the root back to the root
\* and handed back the node it left
C19_Witness ==
    /\ a_op.name = "cancel_last"
    /\ a_result.kind = "Some"
    /\ automaton.current_state = automaton.root
    /\ a_result.nodes[1] \in
           {automaton.arena[id].data : id \in Range(children_of(automaton, automaton.root))}

\* C19 as stated: cancel_last moves the cursor to its immediate parent and
\* returns the node it left, unless that parent is the root, where it is a
\* no-op returning nothing.
C19_NoOpBelowRoot ==
    [][a_op'.name = "cancel_last" =>
          IF automaton.arena[automaton.current_state].parent \notin {0, automaton.root}
          THEN CancelMoves ELSE CancelIdles]_vars

\* ------------------------------------------------------------------------
\* Activation errors (SpecRules)
\* ------------------------------------------------------------------------
\* the Result that activate_rule_by_index / deactivate_rule_by_index owes to
\* a call with `index` from the engine `mao`, "" where it owes no error
OwedError(name, mao, index) ==
    IF index >= Len(mao.available_rules) THEN "Err:InvalidRuleIndex"
    ELSE IF name = "activate_rule_by_index" /\ index \in Range(mao.activated_rules)
    THEN "Err:RuleAlreadyActivated"
    ELSE IF name = "deactivate_rule_by_index" /\ index \notin Range(mao.activated_rules)
    THEN "Err:RuleNotActivated"
    ELSE ""

\* C21: activating an activated module gives RuleAlreadyActivated,
\* deactivating a module that is not activated gives RuleNotActivated, an
\* index that is no module's gives InvalidRuleIndex for both, and in these
\* cases neither the activated list nor the automaton changes.
C21_ActivationErrors ==
    [][(/\ c_op'.name \in {"activate_rule_by_index", "deactivate_rule_by_index"}
        /\ OwedError(c_op'.name, mao_core, c_op'.player_index) # "") =>
           /\ c_status' = OwedError(c_op'.name, mao_core, c_op'.player_index)
           /\ mao_core'.activated_rules = mao_core.activated_rules
           /\ automaton' = automaton]_vars

\* a module that declares action paths was activated a second time and the
\* call was refused, the automaton being the one before the call
C21_Witness ==
    /\ c_op.name = "activate_rule_by_index"
    /\ c_status = "Err:RuleAlreadyActivated"
    /\ get_actions(mao_core.available_rules[c_op.player_index + 1]) # <<>>
    /\ automaton = a_hist.ext_before

\* ------------------------------------------------------------------------
\* Drawing and refilling (SpecCore)
\* ------------------------------------------------------------------------
\* the cards of the stacks of the types given, all together
RECURSIVE CardsIn(_, _)
CardsIn(stacks, stack_types) ==
    IF stacks = <<>> THEN <<>>
    ELSE (IF Head(stacks).stack_type \in stack_types THEN Head(stacks).cards ELSE <<>>)
             \o CardsIn(Tail(stacks), stack_types)

\* draw_multiple_cards_unchosen handed back exactly the n cards asked for,
\* which lay in the stacks before the call and lie in none after it
DrewExactly ==
    /\ c_status = "Ok"
    /\ Len(c_out) = c_op.card_index
    /\ Range(c_out) \subseteq Range(CardsIn(c_before.stacks,
                                            {"Drawable", "Playable", "Discardable"}))
    /\ Range(c_out) \cap Range(CardsIn(mao_core.stacks,
                                       {"Drawable", "Playable", "Discardable"})) = {}

\* it failed with NotEnoughCards, the drawable stacks being empty
DrewNotEnough ==
    /\ c_status = "Err:NotEnoughCards"
    /\ c_out = <<>>
    /\ CardsIn(mao_core.stacks, {"Drawable"}) = <<>>

\* it failed with the error of the refill it attempted on finding the
\* drawable stacks exhausted: there is no drawable stack to refill, or the
\* handler of an activated module failed on the stack-runs-out occurrence
DrewRefillError ==
    /\ c_op.card_index > 0
    /\ c_out = <<>>
    /\ CardsIn(mao_core.stacks, {"Drawable"}) = <<>>
    /\ \/ /\ c_status = "Err:NoStackAvailable"
          /\ get_specific_stacks(c_before, {"Drawable"}) = <<>>
          /\ mao_core.stacks = c_before.stacks
       \/ /\ c_status = "Err:Handler"
          /\ \E i \in 1..Len(c_before.activated_rules) :
                 Answers(c_before)[c_before.activated_rules[i]]["StackPropertyRunsOut"]
                     = HandlerErr

\* C22, as amended: draw_multiple_cards_unchosen(n) hands back exactly n
\* cards, taken from the drawable stacks as they were refilled, or fails
\* with NotEnoughCards, the drawable stacks being empty then, or fails with
\* the error of the refill it attempted (no drawable stack, a module's handler
\* failed); it never hands back fewer or more than n cards.
C22_ExactlyNCardsOrRefillError ==
    c_op.name = "draw_multiple_cards_unchosen" =>
        DrewExactly \/ DrewNotEnough \/ DrewRefillError

\* C22 as stated: draw_multiple_cards_unchosen(n) hands back exactly n cards
\* or fails with NotEnoughCards, and ends in no other way.
C22_ExactlyNCards ==
    c_op.name = "draw_multiple_cards_unchosen" => DrewExactly \/ DrewNotEnough

\* two cards were handed back, the second one after the played stack had
\* been collapsed into the emptied draw pile
C22_Witness ==
    /\ c_op.name = "draw_multiple_cards_unchosen"
    /\ c_status = "Ok"
    /\ c_op.card_index = 2 /\ Len(c_out) = 2
    /\ Len(CardsIn(c_before.stacks, {"Drawable"})) = 1

\* a card that lay in a played or discard stack before the operation lies
\* in a drawable stack after it: refill_drawable_stacks has moved cards
PlayedStackCollapsed ==
    Range(CardsIn(c_before.stacks, {"Playable", "Discardable"}))
        \cap Range(CardsIn(mao_core.stacks, {"Drawable"})) # {}

\* the operation offered the rule modules a stack-runs-out occurrence that
\* every one of them ignored
RunsOutOfferedAndIgnored ==
    \E k \in 1..Len(c_trace) :
        /\ c_trace[k].call = "on_event"
        /\ c_trace[k].info[1] = "StackPropertyRunsOut"
        /\ \A j \in 2..Len(c_trace[k].info) : c_trace[k].info[j] = "Ignored"

\* C23: the engine moves cards back to a drawable stack only after it has
\* offered the rule modules a stack-runs-out occurrence and all of them
\* have ignored it.
C23_RefillAsksModulesFirst ==
    (/\ PlayedStackCollapsed
     /\ c_op.name # "init_new_game"
     /\ c_op.name = "refill_drawable_stacks" => c_op.check_rules)
        => RunsOutOfferedAndIgnored

\* ------------------------------------------------------------------------
\* The log of on_event (SpecRules)
\* ------------------------------------------------------------------------
\* C24: on_event appends the occurrence to the log once, before it calls
\* any handler, when the kind is recordable, and leaves the log alone for
\* the bookkeeping kinds (stack runs out, end of turn, penalty, game start,
\* validity probe).
C24_RecordedOnceBeforeHandlers ==
    c_op.name = "on_event" =>
        /\ mao_core.player_events =
               IF c_op.event.kind \in {"StackPropertyRunsOut", "EndPlayerTurn",
                                       "PlayerPenality", "GameStart", "VerifyEvent"}
               THEN c_before.player_events
               ELSE Append(c_before.player_events, c_op.event)
        /\ \A k \in 1..Len(c_trace) :
              c_trace[k].call = "get_on_event_func" =>
                  c_trace[k].info[2] = Len(mao_core.player_events)

\* a recordable occurrence was dispatched to two activated modules, whose
\* handlers were given the log with the occurrence in it
C24_Witness ==
    /\ c_op.name = "on_event"
    /\ c_op.event.kind = "SayEvent"
    /\ Len(c_before.activated_rules) = 2
    /\ Len(mao_core.player_events) = Len(c_before.player_events) + 1
    /\ \E k \in 1..Len(c_trace) :
          /\ c_trace[k].call = "get_on_event_func"
          /\ c_trace[k].info[2] = Len(c_before.player_events) + 1

\* ------------------------------------------------------------------------
\* Structural identity (SpecAutomaton)
\* ------------------------------------------------------------------------
\* C25: an automaton that has only been walked (on_action,
\* on_action_indexed, cancel_last, reset) since it was built is, after a
\* cancel_last or a reset, structurally equal to a fresh automaton built
\* from the same paths.
C25_TraversalKeepsIdentity ==
    (/\ a_hist.fresh
     /\ a_hist.ext_paths = <<>>
     /\ a_op.name \in {"cancel_last", "reset"}) =>
        Automaton_eq(automaton, from_iter(a_hist.inserted).a)

\* C26: an automaton built from paths A and then extended with paths P is
\* structurally equal to the automaton built at once from A followed by P.
C26_ExtendIsBuildingAtOnce ==
    (a_op.name = "extend" /\ a_hist.pristine /\ ~a_panicked) =>
        /\ ~from_iter(a_hist.inserted).panic
        /\ Automaton_eq(automaton, from_iter(a_hist.inserted).a)
        /\ Automaton_eq(from_iter(a_hist.inserted).a, automaton)

\* a path was added by extend that shares its first step with a path the
\* automaton was built from
C26_Witness ==
    /\ a_op.name = "extend" /\ a_hist.pristine /\ ~a_panicked
    /\ Len(a_hist.inserted) >= 2
    /\ Len(a_hist.ext_paths) = 1
    /\ Len(a_hist.ext_paths[1]) = 2
    /\ \E i \in 1..(Len(a_hist.inserted) - 1) :
          /\ Len(a_hist.inserted[i]) = 2
          /\ a_hist.inserted[i][1].action.action = a_hist.ext_paths[1][1].action.action
    /\ Len(automaton.arena) > Len(a_hist.ext_before.arena)

\* ------------------------------------------------------------------------
\* The closing of a turn (SpecCore)
\* ------------------------------------------------------------------------
\* the requirements (card played, effect asked) that `player_index` left
\* unmet in `events`
UnmetBy(events, player_index) ==
    {<<i, e>> \in (1..Len(events)) \X (1..Len(cards_effects[1].effects) + 2) :
        /\ events[i].kind = "PlayedCardEvent"
        /\ events[i].player_index = player_index
        /\ e <= Len(get_card_effects(events[i].card[1]))
        /\ LET effect == get_card_effects(events[i].card[1])[e]
           IN \/ /\ effect.effect = "Say"
                 /\ \E w \in 1..Len(effect.words) :
                       ~SaidIn(events, player_index, effect.words[w])
              \/ /\ effect.effect = "Physical"
                 /\ \A j \in 1..Len(events) :
                       events[j] # PhysicalEvent(player_index, effect.words[1])}

\* the penalties given to a player for what the check of trace entry k found
PenaltiesFor(k, player_index) ==
    Cardinality({j \in (k + 1)..Len(c_trace) :
                    /\ c_trace[j].call \in {"on_penality", "penality"}
                    /\ c_trace[j].site \in {814, 816}
                    /\ c_trace[j].player_index = player_index})

\* C27: when on_turn_ends checks the cards played, every player gets one
\* ForgotSomething for each requirement of a card that player played and left
\* unmet, and one penalty for each of them.
C27_ForgotPutOnCardPlayer ==
    \A k \in 1..Len(c_trace) :
        (c_trace[k].call = "basic_check" /\ c_status = "Ok") =>
            \A p \in PlayerIndexes :
                /\ ForgotFor(k, p) = Cardinality(UnmetBy(c_trace[k].info[1], p))
                /\ PenaltiesFor(k, p) = Cardinality(UnmetBy(c_trace[k].info[1], p))

\* the places of the turn-changing entries among the first n of a log
Turners(log, n) == {i \in 1..n : can_change_turn(log[i])}

\* the greatest of a non-empty set of naturals
Greatest(S) == CHOOSE m \in S : \A i \in S : i <= m

\* C28: on_turn_ends walks the log (less the entry of a violating action, and
\* less the entry of the action under way) backward; the first turn-changing
\* entry it meets delimits the closed turn: every entry up to it is handed to
\* the EndPlayerTurn occurrence and leaves the log, and what stays in the log
\* is the entries after it that belong to the player whose turn it is.
C28_ClosedTurnDelimited ==
    \A k \in 1..Len(c_trace) :
        (c_trace[k].call = "on_turn_ends" /\ c_status \notin Panics) =>
            LET log == c_trace[k].info[1]
                remaining == IF c_trace[k].info[2] THEN Front(log) ELSE log
                datas == c_trace[k].info[3]
                rest == c_trace[k].info[4]
                turners == Turners(log, Len(log) - 1)
            IN turners # {} =>
                  /\ \A i \in 1..Greatest(turners) : remaining[i] \in Range(datas)
                  /\ rest = SelectSeq(SubSeq(remaining, Greatest(turners) + 1,
                                             Len(remaining)),
                                      LAMBDA e : e.player_index = c_trace[k].player_index)

\* the occurrence the operation c_op records first for its player
ActionRecorded(event) ==
    /\ event.player_index = c_op.player_index
    /\ event.kind = IF c_op.name = "play_interaction" THEN "PlayedCardEvent"
                    ELSE "DrawedCardEvent"

\* C29: on_turn_ends(true) drops the last entry of the log, the one of the
\* action under way, and reconciles the others: the entry is neither handed
\* to the EndPlayerTurn occurrence nor left in the log; on_turn_ends(false)
\* drops nothing: every entry of the log, the one of the action under way
\* included, is handed over or left in the log.
C29_DiscardsLastIffWrong ==
    \A k \in 1..Len(c_trace) :
        (c_trace[k].call = "on_turn_ends" /\ c_status \notin Panics) =>
            LET log == c_trace[k].info[1]
                wrong_interaction == c_trace[k].info[2]
                kept == Range(c_trace[k].info[3]) \cup Range(c_trace[k].info[4])
            IN /\ log # <<>>
               /\ ActionRecorded(log[Len(log)])
               /\ IF wrong_interaction
                  THEN /\ kept = Range(Front(log))
                       /\ log[Len(log)] \notin Range(Front(log)) =>
                              log[Len(log)] \notin kept
                  ELSE kept = Range(log)

\* on_turn_ends(true) has dropped the entry of a refused action and handed
\* older entries to an EndPlayerTurn occurrence
C29_Witness ==
    \E k \in 1..Len(c_trace) :
        /\ c_trace[k].call = "on_turn_ends"
        /\ c_status = "Ok"
        /\ c_trace[k].info[2]
        /\ Len(c_trace[k].info[1]) >= 2
        /\ c_trace[k].info[3] # <<>>
        /\ c_trace[k].info[1][Len(c_trace[k].info[1])] \notin Range(c_trace[k].info[3])
        /\ c_wrong # <<>>

\* ------------------------------------------------------------------------
\* Properties of SpecRemove
\* ------------------------------------------------------------------------
\* from step i on, `path` leads from `node_id` down live nodes, branch after
\* branch by their tokens, to a leaf equal to its last step
RECURSIVE LeadsToLeaf(_, _, _, _)
LeadsToLeaf(a, node_id, path, i) ==
    \E k \in 1..Len(a.arena[node_id].children) :
        LET id == a.arena[node_id].children[k]
        IN /\ ~a.arena[id].removed
           /\ a.arena[id].data.action.action = path[i].action.action
           /\ IF i = Len(path)
              THEN /\ a.arena[id].data.func # "None"
                   /\ NodeState_eq(a.arena[id].data, path[i])
              ELSE /\ a.arena[id].data.func = "None"
                   /\ LeadsToLeaf(a, id, path, i + 1)

RECURSIVE CallbacksBefore(_)
CallbacksBefore(k) ==
    IF k > 1 /\ c_trace[k - 1].call = "other_rules_callback"
    THEN 1 + CallbacksBefore(k - 1) ELSE 0

\* the deferred types among a list of verdict types
DeferredAmong(types) == SelectSeq(types, LAMBDA t : t \in DeferredTypes)

\* the violations the modules themselves raised in the operation: the
\* Disallow and ForgetSomething verdicts of the handlers
HandlerViolations ==
    {<<k, i>> \in (1..Len(c_trace)) \X (2..(NumModules + 2)) :
        /\ c_trace[k].call = "on_event"
        /\ i <= Len(c_trace[k].info)
        /\ c_trace[k].info[i] \in {"Disallow", "ForgetSomething"}}

\* C31: the callbacks of an occurrence are all given the deferred verdicts
\* of its handlers and nothing else; the deferred verdicts sorted out
\* afterwards are those, followed by the deferred verdicts the callbacks
\* returned; the violations handed back for a play and the penalties given
\* for them are those of the handlers' verdicts, one each.
C31_CallbackOnlyDefers ==
    /\ \A k \in 1..Len(c_trace) :
          c_trace[k].call = "deferred" =>
              LET n == CallbacksBefore(k)
                  e == k - n - 1
              IN /\ e >= 1 /\ c_trace[e].call = "on_event"
                 /\ \A i \in 1..n :
                       c_trace[e + i].info[2] = DeferredAmong(Tail(c_trace[e].info))
                 /\ c_trace[k].info =
                       DeferredAmong(Tail(c_trace[e].info))
                           \o DeferredAmong([i \in 1..n |-> c_trace[e + i].info[1]])
    /\ (c_op.name = "play_interaction" /\ c_status = "Ok") =>
          /\ Cardinality({i \in 1..Len(c_wrong) : c_wrong[i].rule = "rule"})
                 = Cardinality(HandlerViolations)
          /\ Cardinality({k \in 1..Len(c_trace) :
                             /\ c_trace[k].call \in {"on_penality", "penality"}
                             /\ c_trace[k].site \in {553, 555, 706, 708}})
                 = Cardinality(HandlerViolations)

\* a play that one module disallowed and another deferred, whose callbacks
\* returned a Disallow and a ForgetSomething
C31_Witness ==
    /\ c_op.name = "play_interaction" /\ c_status = "Ok"
    /\ Cardinality(HandlerViolations) = 1
    /\ \E k \in 3..Len(c_trace) :
          /\ c_trace[k].call = "deferred"
          /\ c_trace[k].info = <<"OverrideBasicRule">>
          /\ c_trace[k - 1].call = "other_rules_callback"
          /\ c_trace[k - 2].call = "other_rules_callback"
          /\ {c_trace[k - 1].info[1], c_trace[k - 2].info[1]}
                 = {"Disallow", "ForgetSomething"}
          /\ c_trace[k - 1].info[2] = <<"OverrideBasicRule">>

\* ------------------------------------------------------------------------
\* The default penalty (SpecCore)
\* ------------------------------------------------------------------------
\* the first trace entry after k that is a call `call`, 0 when there is none
NextCall(k, call) ==
    IF \E j \in (k + 1)..Len(c_trace) : c_trace[j].call = call
    THEN CHOOSE j \in (k + 1)..Len(c_trace) :
             /\ c_trace[j].call = call
             /\ \A i \in (k + 1)..(j - 1) : c_trace[i].call # call
    ELSE 0

\* the cards lying in stacks
StackCards(stacks) == Range(CardsIn(stacks, {"Drawable", "Playable", "Discardable"}))

\* C32: on_penality hands a PlayerPenality occurrence for the player to the
\* modules; when all of them ignore it and the call ends well, the hand of the
\* player is longer by one card, which lay in a stack and no longer does, and
\* the other hands are as they were; when one of them does not ignore it (a
\* verdict that is not Ignored, or the handler's error, which on_penality
\* returns), the default penalty is not applied and the hands and stacks are
\* as they were.
C32_DefaultPenaltyIffIgnored ==
    \A k \in 1..Len(c_trace) :
        c_trace[k].call = "on_penality" =>
            LET e == NextCall(k, "on_event")
                j == NextCall(k, "on_penality_end")
                p == c_trace[k].player_index
                hands == c_trace[k].info[1]
            IN /\ e # 0 /\ j # 0 /\ e < j
               /\ c_trace[e].info[1] = "PlayerPenality"
               /\ c_trace[e].player_index = p
               /\ (\E i \in e..j : c_trace[i].call = "common_penality")
                      <=> /\ c_trace[j].info[1] = "Ok"
                          /\ \A i \in 2..Len(c_trace[e].info) :
                                c_trace[e].info[i] = "Ignored"
               /\ IF \A i \in 2..Len(c_trace[e].info) : c_trace[e].info[i] = "Ignored"
                  THEN c_trace[j].info[1] = "Ok" =>
                          \E card \in StackCards(c_trace[k].info[2]) :
                              /\ c_trace[j].info[2] = [hands EXCEPT ![p + 1] = Append(@, card)]
                              /\ StackCards(c_trace[j].info[3])
                                     = StackCards(c_trace[k].info[2]) \ {card}
                  ELSE /\ c_trace[j].info[1] =
                              IF "Err" \in Range(c_trace[e].info) THEN "Err:Handler"
                              ELSE "Ok"
                       /\ c_trace[j].info[2] = hands
                       /\ c_trace[j].info[3] = c_trace[k].info[2]

\* a module is activated and ignored the PlayerPenality occurrence: the
\* default penalty gave the player a card
C32_Witness ==
    \E k \in 1..Len(c_trace) :
        /\ c_trace[k].call = "on_penality"
        /\ NextCall(k, "on_penality_end") # 0
        /\ c_trace[NextCall(k, "on_penality_end")].info[1] = "Ok"
        /\ Len(c_trace[NextCall(k, "on_penality_end")].info[2][c_trace[k].player_index + 1])
               = Len(c_trace[k].info[1][c_trace[k].player_index + 1]) + 1
        /\ mao_core.activated_rules # <<>>

\* C33: a call of on_action_indexed that returns an error leaves the cursor
\* and the previous interactions of the automaton as they were.
C33_IndexedErrorChangesNothing ==
    [][(/\ a_op'.name = "on_action_indexed"
        /\ a_result'.kind \in {"Err:InvalidIndex", "Err:NotMultipleNodes"}) =>
           /\ automaton'.current_state = automaton.current_state
           /\ automaton'.previous_interactions = automaton.previous_interactions]_vars

\* C34: whatever the players say, play and draw, on_turn_ends removes and
\* drains within the log: no operation ends in the panic of Vec::drain on a
\* range that reaches past the end of the log.
C34_DrainWithinLog == c_status # "panic:drain"

\* C35: from MaoCore::new on and after every update_turn, the index of the
\* player whose turn it is is the index of one of the players.
C35_PlayerTurnInRange ==
    mao_core.player_turn \in 0..(Len(mao_core.players) - 1)

\* ------------------------------------------------------------------------
\* The cards of a game (SpecCore)
\* ------------------------------------------------------------------------
\* the cards a MaoCore holds, in its stacks and in the hands of its players
Held(mao) ==
    CardsIn(mao.stacks, {"Drawable", "Playable", "Discardable"}) \o Flatten(mao.players)

\* how many times a card is in a list of cards
Occurrences(cards, card) == Cardinality({i \in 1..Len(cards) : cards[i] = card})

\* the operations that play, draw, penalise and refill
CardOps ==
    PlayerOps \cup {"draw_multiple_cards_unchosen", "common_penality_to_player",
                    "refill_drawable_stacks", "init_player", "init_all_players"}

\* C36: while no module is activated, every operation, whether it ends well
\* or with an error, leaves each card as many times in the stacks and hands,
\* together with the cards it hands back to its caller, as it was in the
\* stacks and hands before.
C36_CardsConserved ==
    [][(mao_core.activated_rules = <<>> /\ mao_core'.activated_rules = <<>>
            /\ c_op'.name \in CardOps
            /\ c_status' \notin Panics) =>
           \A card \in Range(common_cards) :
               Occurrences(Held(mao_core') \o c_out', card)
                   = Occurrences(Held(mao_core), card)]_vars

\* C37: a call of activate_rule_by_index or deactivate_rule_by_index on the
\* index of an available module returns Ok or a typed error and never
\* aborts, whatever activations and deactivations came before; so a module
\* activated and then deactivated can be activated again.
C37_ActivationNeverAborts ==
    (/\ c_op.name \in {"activate_rule_by_index", "deactivate_rule_by_index"}
     /\ c_op.player_index < Len(mao_core.available_rules))
        => c_status \notin Panics

\* C38: after any activate_rule, activate_rule_by_index and
\* deactivate_rule_by_index, no module is twice in the list of the activated
\* modules.
C38_ActivatedOnce ==
    \A i, j \in 1..Len(mao_core.activated_rules) :
        mao_core.activated_rules[i] = mao_core.activated_rules[j] => i = j

\* the verdicts the activated modules of `mao` give to a card played
PlayVerdicts(mao) ==
    [i \in 1..Len(mao.activated_rules) |->
        IF "PlayedCardEvent" \in mao.available_rules[mao.activated_rules[i] + 1].kinds
        THEN mao.available_rules[mao.activated_rules[i] + 1].result
        ELSE Ignored]

\* a module disallows the card the player whose turn it is plays, and no
\* module gives a deferred verdict, itself or by its cross-rule callback
DisallowedByModule ==
    /\ c_op.name = "play_interaction"
    /\ c_status = "Ok"
    /\ c_op.player_index = c_before.player_turn
    /\ \E i \in 1..Len(PlayVerdicts(c_before)) :
          PlayVerdicts(c_before)[i].res_type = "Disallow"
    /\ \A i \in 1..Len(PlayVerdicts(c_before)) :
          /\ PlayVerdicts(c_before)[i].res_type \notin DeferredTypes
          /\ PlayVerdicts(c_before)[i].other_rules_callback \notin DeferredTypes

\* C39: when a module disallows the card played by the player whose turn it
\* is, no module overriding, the card is still in the hand of the player and
\* in no stack, and the turn has moved as after a play the basic rules
\* refuse: one default step, the direction of play as it was, whatever
\* turn change the card is configured with.
C39_DisallowedCardHasNoEffect ==
    DisallowedByModule =>
        LET card == c_before.players[c_op.player_index + 1][c_op.card_index + 1]
        IN /\ card \in Range(mao_core.players[c_op.player_index + 1])
           /\ card \notin StackCards(mao_core.stacks)
           /\ mao_core.turn = c_before.turn
           /\ mao_core.player_turn
                  = update_turn(c_before, PlayerTurnChange_default).player_turn

\* the stacks of `mao` that are not drawable ones, with their places
PlayedAndDiscarded(mao) ==
    [i \in 1..Len(mao.stacks) |->
        IF mao.stacks[i].stack_type \in {"Playable", "Discardable"}
        THEN <<mao.stacks[i]>> ELSE <<>>]

\* C40: draw_multiple_cards_unchosen(n) leaves every Playable and every
\* Discardable stack as it was when the drawable stacks together held at
\* least n cards on entry.
C40_DrawSparesPlayedStacks ==
    (/\ c_op.name = "draw_multiple_cards_unchosen"
     /\ Len(CardsIn(c_before.stacks, {"Drawable"})) >= c_op.card_index)
        => PlayedAndDiscarded(mao_core) = PlayedAndDiscarded(c_before)

====
